---- MODULE Spec2Model ----
(***************************************************************************)
(* State-machine model of the SmartDarshan crowd analytics core:           *)
(*   - AlertManager             (processors/alert_manager.py)              *)
(*   - BiDirectionalGateCounter (processors/gate_counter.py)               *)
(*   - DwellTimeAnalyzer        (processors/dwell_analyzer.py)             *)
(*   - ConnectionManager        (api/websocket.py)                         *)
(*                                                                         *)
(* Units.  Times are whole seconds.  Densities and velocities are tenths   *)
(* (2.5 people/m2 = 25, 0.3 m/s = 3).  Positions are hundredths of the     *)
(* frame (0.6 = 60), which is also the percentage form the analyzers       *)
(* accept and divide by 100.                                               *)
(*                                                                         *)
(* Every component has its own specification (SpecAlert, SpecGate,         *)
(* SpecDwell, SpecSession); the variables of the other components keep     *)
(* their initial value in it.                                              *)
(***************************************************************************)
EXTENDS Integers, Sequences, FiniteSets, TLC

VARIABLES
    now,                    \* the value time.time() returns
    call,                   \* the operation executed last, with its arguments
    \* ---- AlertManager
    alerts,                 \* the Alert objects ever created, by id
    active_alerts,          \* ids held in AlertManager.active_alerts
    alert_history,          \* AlertManager.alert_history (ids, oldest first)
    thresholds,             \* AlertManager.thresholds
    condition_start_times,  \* AlertManager._condition_start_times, by zone
    last_alert_times,       \* AlertManager._last_alert_times, by (type, zone)
    new_alerts,             \* the list the last check_metrics returned (ids)
    callbacks,              \* AlertManager._callbacks, in registration order
    notified,               \* the callback calls the last check_metrics made
    \* ---- BiDirectionalGateCounter
    gates,                  \* ids of BiDirectionalGateCounter.gates, in dict order
    gate_track_positions,   \* track_positions: track id -> list of (x, y, time)
    crossings,              \* the crossing log
    entry_count,            \* gate id -> entries counted
    exit_count,             \* gate id -> exits counted
    crossed_tracks,         \* gate id -> track ids that crossed it
    new_crossings,          \* the list the last update returned
    \* ---- DwellTimeAnalyzer
    dwell_records,          \* the DwellRecord objects ever created, by index
    active_dwells,          \* zone id -> items (track id, record) of the dict
    completed_dwells,       \* the completed log (records, oldest first)
    dwell_track_positions,  \* track_positions: track id -> (x, y)
    \* ---- ConnectionManager
    sockets,                \* the WebSocket objects: endpoint state, client
    active_connections,     \* video id -> set of attached websockets
    processors,             \* video id -> VideoProcessor
    processor_objs,         \* the VideoProcessor objects ever created
    tasks,                  \* video id -> processing task
    task_objs,              \* the asyncio tasks ever created
    analyzers,              \* video id -> analyzers (the four dicts)
    analyzer_objs,          \* the analyzer objects ever created
    running,                \* the task that holds the event loop, or NoTask
    \* ---- QueueAnalyzer, MetricsCalculator
    service_rate,           \* QueueAnalyzer.service_rate, in tenths per minute
    zone_area_sqm,          \* MetricsCalculator.zone_area_sqm
    \* ---- FlowAnalyzer
    flow_track_positions,   \* track_positions: track id -> list of (x, y, time)
    flow_history,           \* the flow vectors (displacement, angle)
    counter_flow_events,    \* the counter-flow log
    dominant_flow,          \* NoFlow, or the dominant flow vector
    direction_heatmap,      \* NoHeatmap, or the grid of the heatmap
    new_counter_flow,       \* the events the last update returned
    angle_threshold,        \* FlowAnalyzer.angle_threshold, in degrees
    \* ---- AnomalyDetector
    track_history,          \* track id -> list of position records
    anomaly_events,         \* the anomaly log
    event_counter,          \* AnomalyDetector.event_counter
    average_crowd_velocity, \* the crowd baseline, as a fraction (num, den)
    velocity_history,       \* the baselines of the past updates
    new_anomalies           \* the events the last update returned

alertVars == <<alerts, active_alerts, alert_history, thresholds,
               condition_start_times, last_alert_times, new_alerts>>

gateVars == <<gates, gate_track_positions, crossings, entry_count, exit_count,
              crossed_tracks, new_crossings>>

dwellVars == <<dwell_records, active_dwells, completed_dwells,
               dwell_track_positions>>

sessionVars == <<sockets, active_connections, processors, processor_objs,
                 tasks, task_objs, analyzers, analyzer_objs, running>>

configVars == <<service_rate, zone_area_sqm>>

callbackVars == <<callbacks, notified>>

flowVars == <<flow_track_positions, flow_history, counter_flow_events,
              dominant_flow, direction_heatmap, new_counter_flow,
              angle_threshold>>

anomalyVars == <<track_history, anomaly_events, event_counter,
                 average_crowd_velocity, velocity_history, new_anomalies>>

vars == <<now, call, alertVars, gateVars, dwellVars, sessionVars, configVars,
          flowVars, anomalyVars, callbackVars>>

\* What an operation of one component leaves alone
notAlertVars == <<gateVars, dwellVars, sessionVars, configVars, flowVars, anomalyVars, callbackVars>>
notGateVars == <<alertVars, dwellVars, sessionVars, configVars, flowVars, anomalyVars, callbackVars>>
notDwellVars == <<alertVars, gateVars, sessionVars, configVars, flowVars, anomalyVars, callbackVars>>
notSessionVars == <<alertVars, gateVars, dwellVars, configVars, flowVars, anomalyVars, callbackVars>>
notConfigVars == <<alertVars, gateVars, dwellVars, sessionVars, callbackVars,
                  flowVars, anomalyVars>>
notFlowVars == <<alertVars, gateVars, dwellVars, sessionVars, configVars,
                 callbackVars, anomalyVars>>
notAnomalyVars == <<alertVars, gateVars, dwellVars, sessionVars, configVars,
                    callbackVars, flowVars>>

(***************************************************************************)
(* Bounds of the model                                                     *)
(***************************************************************************)
MaxTime == 120
MaxAlerts == 2
MaxGateTicks == 3
MaxDwellTicks == 3
MaxSockets == 2
MaxTicks == 2
MaxCallbacks == 2
MaxFlowTicks == 3
MaxAnomalyTicks == 3
MaxFrames == 3

Delays == {20, 60}

(***************************************************************************)
(* Generic helpers                                                         *)
(***************************************************************************)
None == "None"

Range(s) == {s[i] : i \in DOMAIN s}

\* The first n elements of s: the newest entries are the ones dropped
FirstN(s, n) == IF Len(s) <= n THEN s ELSE SubSeq(s, 1, n)

\* The last n elements of s (Python's s[-n:], the eviction of a deque(maxlen=n))
LastN(s, n) == IF Len(s) <= n THEN s ELSE SubSeq(s, Len(s) - n + 1, Len(s))

\* f with key k bound to v (dict assignment; adds the key when it is missing)
Put(f, k, v) == [x \in (DOMAIN f) \cup {k} |-> IF x = k THEN v ELSE f[x]]

\* f without key k (dict.pop(k, None), del f[k])
Drop(f, k) == [x \in (DOMAIN f) \ {k} |-> f[x]]

EmptyMap == [x \in {} |-> 0]

\* time.time() advances between two calls of the alert manager
AdvanceClock ==
    \E dt \in Delays :
        /\ now + dt <= MaxTime
        /\ now' = now + dt

\* config.py: WS_UPDATE_INTERVAL, the seconds between two ticks of a session
TickInterval == 1

(***************************************************************************)
(* AlertManager                                                            *)
(***************************************************************************)
cooldown_seconds == 60
AlertHistoryMaxLen == 1000

AlertTypes == {"high_density", "critical_density", "low_velocity",
               "congestion", "crowd_surge", "long_queue", "anomaly"}

DefaultThresholds ==
    [density_warning |-> 25, density_critical |-> 35,
     velocity_warning |-> 5, velocity_critical |-> 3,
     queue_long |-> 45, queue_very_long |-> 60,
     congestion_duration |-> 120]

\* Inputs of the alert operations
AlertZones == {"general", "gate"}
NormalMetrics ==
    [density |-> 10, velocity |-> 10, congestionStatus |-> "free", waitTimeMinutes |-> 0]
MetricsInputs ==
    {NormalMetrics,
     [NormalMetrics EXCEPT !.density = 30],
     [NormalMetrics EXCEPT !.density = 40],
     [NormalMetrics EXCEPT !.velocity = 2],
     [NormalMetrics EXCEPT !.density = 40, !.velocity = 2]}
ThresholdKeyInputs == {"density_critical", "no_such_key"}
ThresholdValueInputs == {20}

\* The mutable part of the manager a check_metrics call threads through its
\* four signal checks.
ManagerState ==
    [objs |-> alerts, active |-> active_alerts, history |-> alert_history,
     last |-> last_alert_times, cond |-> condition_start_times, new |-> <<>>]

\* An unresolved alert of this type and zone is held in active_alerts
HasUnresolved(objs, active, alert_type, zone) ==
    \E id \in active :
        /\ objs[id].type = alert_type
        /\ objs[id].zone = zone
        /\ ~objs[id].resolved

\* The (type, zone) pair is inside its cooldown window at time t
InCooldown(last, alert_type, zone, t) ==
    /\ <<alert_type, zone>> \in DOMAIN last
    /\ t - last[<<alert_type, zone>>] < cooldown_seconds

\* _create_alert_if_not_exists, lines 243-258: the alert is created, stored in
\* active_alerts and the history, and the cooldown of its key restarts.  The
\* id (eight hex digits of a uuid4) is modelled as a fresh number.
NewAlert(st, alert_type, level, zone, data, t) ==
    LET id == Len(st.objs) + 1
        alert == [id |-> id, type |-> alert_type, level |-> level,
                  timestamp |-> t, zone |-> zone, acknowledged |-> FALSE,
                  resolved |-> FALSE, data |-> data]
    IN [st EXCEPT !.objs = Append(st.objs, alert),
                  !.active = st.active \cup {id},
                  !.history = LastN(Append(st.history, id), AlertHistoryMaxLen),
                  !.last = Put(st.last, <<alert_type, zone>>, t),
                  !.new = Append(st.new, id)]

\* _create_alert_if_not_exists, as a function of the manager state
CreateAlertNoActiveCheck(st, alert_type, level, zone, data, t) ==
    IF InCooldown(st.last, alert_type, zone, t) THEN st
    ELSE NewAlert(st, alert_type, level, zone, data, t)

CreateAlertNoCooldown(st, alert_type, level, zone, data, t) ==
    IF HasUnresolved(st.objs, st.active, alert_type, zone) THEN st
    ELSE NewAlert(st, alert_type, level, zone, data, t)

CreateAlertCooldownInclusive(st, alert_type, level, zone, data, t) ==
    IF HasUnresolved(st.objs, st.active, alert_type, zone) THEN st
    ELSE IF /\ <<alert_type, zone>> \in DOMAIN st.last
            /\ t - st.last[<<alert_type, zone>>] <= cooldown_seconds THEN st
    ELSE NewAlert(st, alert_type, level, zone, data, t)

\* An unresolved alert of the type and zone takes the level asked for
CreateAlertOrEscalate(st, alert_type, level, zone, data, t) ==
    IF HasUnresolved(st.objs, st.active, alert_type, zone)
    THEN [st EXCEPT !.objs =
             [id \in DOMAIN st.objs |->
                 IF /\ id \in st.active
                    /\ st.objs[id].type = alert_type
                    /\ st.objs[id].zone = zone
                    /\ ~st.objs[id].resolved
                 THEN [st.objs[id] EXCEPT !.level = level]
                 ELSE st.objs[id]]]
    ELSE IF InCooldown(st.last, alert_type, zone, t) THEN st
    ELSE NewAlert(st, alert_type, level, zone, data, t)

CreateAlertIfNotExists(st, alert_type, level, zone, data, t) ==
    IF HasUnresolved(st.objs, st.active, alert_type, zone) THEN st
    ELSE IF InCooldown(st.last, alert_type, zone, t) THEN st
    ELSE NewAlert(st, alert_type, level, zone, data, t)

\* _resolve_alerts_of_type
ResolveNothing(st, alert_types, zone) == st

ResolveAlertsOfType(st, alert_types, zone) ==
    [st EXCEPT !.objs =
        [id \in DOMAIN st.objs |->
            IF /\ id \in st.active
               /\ st.objs[id].type \in alert_types
               /\ st.objs[id].zone = zone
               /\ ~st.objs[id].resolved
            THEN [st.objs[id] EXCEPT !.resolved = TRUE]
            ELSE st.objs[id]]]

\* A density check that keeps one density alert per zone: the alert of the
\* other level is resolved when a level is breached
CheckDensityOneLevel(st, thr, m, zone, t) ==
    IF m.density >= thr.density_critical
    THEN CreateAlertIfNotExists(
             ResolveAlertsOfType(st, {"high_density"}, zone),
             "critical_density", "critical", zone, [density |-> m.density], t)
    ELSE IF m.density >= thr.density_warning
    THEN CreateAlertIfNotExists(
             ResolveAlertsOfType(st, {"critical_density"}, zone),
             "high_density", "warning", zone, [density |-> m.density], t)
    ELSE ResolveAlertsOfType(st, {"high_density", "critical_density"}, zone)

\* check_metrics, lines 108-131: density
CheckDensity(st, thr, m, zone, t) ==
    IF m.density >= thr.density_critical
    THEN CreateAlertIfNotExists(st, "critical_density", "critical", zone,
                                [density |-> m.density], t)
    ELSE IF m.density >= thr.density_warning
    THEN CreateAlertIfNotExists(st, "high_density", "warning", zone,
                                [density |-> m.density], t)
    ELSE ResolveAlertsOfType(st, {"high_density", "critical_density"}, zone)

\* check_metrics, lines 133-155: velocity
CheckVelocity(st, thr, m, zone, t) ==
    IF m.velocity <= thr.velocity_critical
    THEN CreateAlertIfNotExists(st, "low_velocity", "critical", zone,
                                [velocity |-> m.velocity], t)
    ELSE IF m.velocity <= thr.velocity_warning
    THEN CreateAlertIfNotExists(st, "low_velocity", "warning", zone,
                                [velocity |-> m.velocity], t)
    ELSE ResolveAlertsOfType(st, {"low_velocity"}, zone)

CheckCongestionAtOnce(st, thr, m, zone, t) ==
    IF m.congestionStatus \in {"congested", "severe"}
    THEN CreateAlertIfNotExists(
             [st EXCEPT !.cond = IF zone \in DOMAIN st.cond THEN st.cond
                                 ELSE Put(st.cond, zone, t)],
             "congestion",
             IF m.congestionStatus = "severe" THEN "critical" ELSE "warning",
             zone, [status |-> m.congestionStatus, duration |-> 0], t)
    ELSE ResolveAlertsOfType([st EXCEPT !.cond = Drop(st.cond, zone)],
                             {"congestion"}, zone)

\* check_metrics, lines 157-174: congestion, gated on its duration
CheckCongestion(st, thr, m, zone, t) ==
    IF m.congestionStatus \in {"congested", "severe"}
    THEN IF zone \notin DOMAIN st.cond
         THEN [st EXCEPT !.cond = Put(st.cond, zone, t)]
         ELSE IF t - st.cond[zone] > thr.congestion_duration
         THEN CreateAlertIfNotExists(st, "congestion",
                  IF m.congestionStatus = "severe" THEN "critical" ELSE "warning",
                  zone,
                  [status |-> m.congestionStatus, duration |-> t - st.cond[zone]],
                  t)
         ELSE st
    ELSE ResolveAlertsOfType([st EXCEPT !.cond = Drop(st.cond, zone)],
                             {"congestion"}, zone)

\* check_metrics, lines 176-198: queue wait
CheckQueue(st, thr, m, zone, t) ==
    IF m.waitTimeMinutes >= thr.queue_very_long
    THEN CreateAlertIfNotExists(st, "long_queue", "critical", zone,
                                [waitTime |-> m.waitTimeMinutes], t)
    ELSE IF m.waitTimeMinutes >= thr.queue_long
    THEN CreateAlertIfNotExists(st, "long_queue", "warning", zone,
                                [waitTime |-> m.waitTimeMinutes], t)
    ELSE ResolveAlertsOfType(st, {"long_queue"}, zone)

\* The manager state check_metrics leaves behind.  All clock reads of one
\* call return the same value t.
CheckMetricsResult(st, thr, m, zone, t) ==
    CheckQueue(CheckCongestion(CheckVelocity(CheckDensity(st, thr, m, zone, t),
                                             thr, m, zone, t),
                               thr, m, zone, t),
               thr, m, zone, t)

\* get_active_alerts: the unresolved alerts of active_alerts
GetActiveAlerts == {id \in active_alerts : ~alerts[id].resolved}

\* A callback is what it does when it is called: it returns, or it raises
\* an Exception
CallbackKinds == {"returns", "raises"}

RECURSIVE CallEach(_, _, _)
CallEach(cbs, i, alert) ==
    IF i > Len(cbs) THEN <<>>
    ELSE <<[callback |-> i, alert |-> alert, raised |-> cbs[i] = "raises"]>>
         \o CallEach(cbs, i + 1, alert)

\* The calls of the callbacks for one alert when nothing catches what a
\* callback raises: the first one that raises is the last one called
RECURSIVE CallUntilRaise(_, _, _)
CallUntilRaise(cbs, i, alert) ==
    IF i > Len(cbs) THEN <<>>
    ELSE <<[callback |-> i, alert |-> alert, raised |-> cbs[i] = "raises"]>>
         \o (IF cbs[i] = "raises" THEN <<>>
             ELSE CallUntilRaise(cbs, i + 1, alert))

NotifyUntilRaise(cbs, alert) == CallUntilRaise(cbs, 1, alert)

\* Lines 202-206: every callback is called with the alert inside its own try
\* statement, which swallows an Exception
NotifyCallbacks(cbs, alert) == CallEach(cbs, 1, alert)

\* Lines 200-206: the new alerts in order, each one to every callback
RECURSIVE NotifyAll(_, _, _)
NotifyAll(cbs, new, i) ==
    IF i > Len(new) THEN <<>>
    ELSE NotifyCallbacks(cbs, new[i]) \o NotifyAll(cbs, new, i + 1)

\* The alerts created since the clock read 0
CreatedInRun(objs) == {id \in DOMAIN objs : objs[id].timestamp > 0}

check_metrics(m, zone) ==
    /\ AdvanceClock
    /\ LET st == CheckMetricsResult(ManagerState, thresholds, m, zone, now')
       IN /\ Cardinality(CreatedInRun(alerts)) + Len(st.new) <= MaxAlerts
          /\ alerts' = st.objs
          /\ active_alerts' = st.active
          /\ alert_history' = st.history
          /\ last_alert_times' = st.last
          /\ condition_start_times' = st.cond
          /\ new_alerts' = st.new
          /\ notified' = NotifyAll(callbacks, st.new, 1)
    /\ call' = [op |-> "check_metrics", zone |-> zone, metrics |-> m]
    /\ UNCHANGED <<thresholds, callbacks, gateVars, dwellVars, sessionVars,
                   configVars, flowVars, anomalyVars>>

\* register_callback
register_callback(callback) ==
    /\ Len(callbacks) < MaxCallbacks
    /\ callbacks' = Append(callbacks, callback)
    /\ call' = [op |-> "register_callback", callback |-> callback]
    /\ UNCHANGED <<now, alertVars, notified, gateVars, dwellVars, sessionVars,
                   configVars, flowVars, anomalyVars>>

acknowledge_alert(alert_id) ==
    /\ alerts' = IF alert_id \in active_alerts
                 THEN [alerts EXCEPT ![alert_id].acknowledged = TRUE]
                 ELSE alerts
    /\ call' = [op |-> "acknowledge_alert"]
    /\ AdvanceClock
    /\ UNCHANGED <<active_alerts, alert_history, thresholds,
              condition_start_times, last_alert_times, new_alerts,
              notAlertVars>>

resolve_alert(alert_id) ==
    /\ alerts' = IF alert_id \in active_alerts
                 THEN [alerts EXCEPT ![alert_id].resolved = TRUE]
                 ELSE alerts
    /\ call' = [op |-> "resolve_alert"]
    /\ AdvanceClock
    /\ UNCHANGED <<active_alerts, alert_history, thresholds,
              condition_start_times, last_alert_times, new_alerts,
              notAlertVars>>

clear_resolved ==
    /\ active_alerts' = {id \in active_alerts : ~alerts[id].resolved}
    /\ call' = [op |-> "clear_resolved"]
    /\ AdvanceClock
    /\ UNCHANGED <<alerts, alert_history, thresholds,
              condition_start_times, last_alert_times, new_alerts,
              notAlertVars>>

set_threshold(key, value) ==
    /\ thresholds' = IF key \in DOMAIN thresholds
                     THEN [thresholds EXCEPT ![key] = value]
                     ELSE thresholds
    /\ call' = [op |-> "set_threshold", key |-> key, value |-> value,
                raised |-> FALSE]
    /\ AdvanceClock
    /\ UNCHANGED <<alerts, active_alerts, alert_history,
              condition_start_times, last_alert_times, new_alerts,
              notAlertVars>>


InitAlert ==
    /\ alerts = <<>>
    /\ active_alerts = {}
    /\ alert_history = <<>>
    /\ thresholds = DefaultThresholds
    /\ condition_start_times = EmptyMap
    /\ last_alert_times = EmptyMap
    /\ new_alerts = <<>>
    /\ callbacks = <<>>
    /\ notified = <<>>

(***************************************************************************)
(* BiDirectionalGateCounter                                                *)
(***************************************************************************)
TrajectoryMaxLen == 30

\* The gates _init_default_gates configures: end points of the line and the
\* entry direction, in hundredths of the frame.
GateConfig ==
    [main_entrance |-> [x1 |-> 10, y1 |-> 60, x2 |-> 90, y2 |-> 60,
                        entry_direction |-> <<0, 1>>],
     inner_gate    |-> [x1 |-> 20, y1 |-> 40, x2 |-> 80, y2 |-> 40,
                        entry_direction |-> <<0, 1>>]]

DefaultGates == <<"main_entrance", "inner_gate">>

\* Inputs of the gate operations: two tracks, positions in percent of the
\* frame.  (50,30) is above the inner gate, (50,50) between the gates,
\* (50,60) on the line of the main entrance, (50,70) below it.
Tracks == {"t1", "t2"}
Absent == <<>>
GatePoints1 == {<<50, 30>>, <<50, 50>>, <<50, 60>>, <<50, 70>>}
GatePoints2 == {<<50, 50>>, <<50, 70>>}
GateResetInputs == {None, "main_entrance", "inner_gate", "no_such_gate"}

TrackedObject(id, p) == [id |-> id, x |-> p[1], y |-> p[2]]

\* A snapshot of the tracker: at most one record per track
Snapshot(p1, p2) ==
    (IF p1 = Absent THEN <<>> ELSE <<TrackedObject("t1", p1)>>) \o
    (IF p2 = Absent THEN <<>> ELSE <<TrackedObject("t2", p2)>>)

GateSnapshots ==
    {Snapshot(p1, p2) : p1 \in GatePoints1 \cup {Absent},
                        p2 \in GatePoints2 \cup {Absent}}

\* update, lines 141-144: a position given in percent (x > 1 or y > 1) is
\* divided by 100, any other is taken as a fraction of the frame.  The result
\* is in hundredths.
Normalize(x, y) ==
    IF x > 1 \/ y > 1 THEN <<x, y>> ELSE <<100 * x, 100 * y>>

\* dict[k] of a defaultdict(int) / defaultdict(set) / defaultdict(list)
GetInt(f, k) == IF k \in DOMAIN f THEN f[k] ELSE 0
GetSet(f, k) == IF k \in DOMAIN f THEN f[k] ELSE {}
GetList(f, k) == IF k \in DOMAIN f THEN f[k] ELSE <<>>

CrossProductSign(p1, p2, p3) ==
    (p2[1] - p1[1]) * (p3[2] - p1[2]) - (p2[2] - p1[2]) * (p3[1] - p1[1])

LinesIntersect(l1_start, l1_end, l2_start, l2_end) ==
    LET d1 == CrossProductSign(l2_start, l2_end, l1_start)
        d2 == CrossProductSign(l2_start, l2_end, l1_end)
        d3 == CrossProductSign(l1_start, l1_end, l2_start)
        d4 == CrossProductSign(l1_start, l1_end, l2_end)
    IN /\ (d1 > 0 /\ d2 < 0) \/ (d1 < 0 /\ d2 > 0)
       /\ (d3 > 0 /\ d4 < 0) \/ (d3 < 0 /\ d4 > 0)

GateStart(gate_id) == <<GateConfig[gate_id].x1, GateConfig[gate_id].y1>>
GateEnd(gate_id) == <<GateConfig[gate_id].x2, GateConfig[gate_id].y2>>

GetCrossingDirectionZeroIsEntry(prev_pos, curr_pos, gate_id) ==
    LET move_x == curr_pos[1] - prev_pos[1]
        move_y == curr_pos[2] - prev_pos[2]
        dot == move_x * GateConfig[gate_id].entry_direction[1]
               + move_y * GateConfig[gate_id].entry_direction[2]
    IN IF dot >= 0 THEN "entry" ELSE "exit"

\* _get_crossing_direction
GetCrossingDirection(prev_pos, curr_pos, gate_id) ==
    LET move_x == curr_pos[1] - prev_pos[1]
        move_y == curr_pos[2] - prev_pos[2]
        dot == move_x * GateConfig[gate_id].entry_direction[1]
               + move_y * GateConfig[gate_id].entry_direction[2]
    IN IF dot > 0 THEN "entry" ELSE "exit"

\* update, lines 154-156: the track already crossed this gate
AlreadyCrossedNever(crossed, gate_id, track_id) == FALSE

AlreadyCrossed(crossed, gate_id, track_id) ==
    track_id \in GetSet(crossed, gate_id)

\* The counter state an update threads through its objects
GateState ==
    [pos |-> gate_track_positions, crossings |-> crossings,
     entry |-> entry_count, exit |-> exit_count,
     crossed |-> crossed_tracks, new |-> <<>>]

\* update, lines 153-182: one gate against the step prev -> cur of a track
GateCheck(st, track_id, prev, cur, gate_id, t) ==
    IF AlreadyCrossed(st.crossed, gate_id, track_id) THEN st
    ELSE IF LinesIntersect(prev, cur, GateStart(gate_id), GateEnd(gate_id))
    THEN LET direction == GetCrossingDirection(prev, cur, gate_id)
             crossing == [track_id |-> track_id, direction |-> direction,
                          timestamp |-> t, gate_id |-> gate_id,
                          position |-> cur]
         IN [st EXCEPT
                !.crossings = Append(st.crossings, crossing),
                !.new = Append(st.new, crossing),
                !.crossed = Put(st.crossed, gate_id,
                                GetSet(st.crossed, gate_id) \cup {track_id}),
                !.entry = IF direction = "entry"
                          THEN Put(st.entry, gate_id, GetInt(st.entry, gate_id) + 1)
                          ELSE st.entry,
                !.exit = IF direction = "entry"
                         THEN st.exit
                         ELSE Put(st.exit, gate_id, GetInt(st.exit, gate_id) + 1)]
    ELSE st

RECURSIVE GateCheckAll(_, _, _, _, _, _, _)
GateCheckAll(st, track_id, prev, cur, gs, i, t) ==
    IF i > Len(gs) THEN st
    ELSE GateCheckAll(GateCheck(st, track_id, prev, cur, gs[i], t),
                      track_id, prev, cur, gs, i + 1, t)

\* update, lines 135-189: one tracked object
GateUpdateObject(st, gs, obj, t) ==
    LET p == Normalize(obj.x, obj.y)
        prev_positions == GetList(st.pos, obj.id)
        last == prev_positions[Len(prev_positions)]
        st1 == IF prev_positions # <<>>
               THEN GateCheckAll(st, obj.id, <<last[1], last[2]>>, p, gs, 1, t)
               ELSE st
    IN [st1 EXCEPT !.pos =
            Put(st1.pos, obj.id,
                LastN(Append(prev_positions, <<p[1], p[2], t>>), TrajectoryMaxLen))]

RECURSIVE GateUpdateAll(_, _, _, _, _)
GateUpdateAll(st, gs, objs, i, t) ==
    IF i > Len(objs) THEN st
    ELSE GateUpdateAll(GateUpdateObject(st, gs, objs[i], t), gs, objs, i + 1, t)

\* BiDirectionalGateCounter.update; one call per tick of the session
gate_update(tracked_objects) ==
    /\ now < MaxGateTicks * TickInterval
    /\ now' = now + TickInterval
    /\ LET st == GateUpdateAll(GateState, gates, tracked_objects, 1, now')
       IN /\ gate_track_positions' = st.pos
          /\ crossings' = st.crossings
          /\ entry_count' = st.entry
          /\ exit_count' = st.exit
          /\ crossed_tracks' = st.crossed
          /\ new_crossings' = st.new
    /\ call' = [op |-> "gate_update", objs |-> tracked_objects]
    /\ UNCHANGED <<gates, notGateVars>>

RECURSIVE ResetAllGates(_, _, _, _)
ResetAllGates(f, gs, i, v) ==
    IF i > Len(gs) THEN f ELSE ResetAllGates(Put(f, gs[i], v), gs, i + 1, v)

\* A reset of one gate that forgets the counts and the log of the gate but
\* not the tracks that crossed it
GateResetKeepsCrossed(gate_id) ==
    /\ IF gate_id # None
       THEN /\ entry_count' = Put(entry_count, gate_id, 0)
            /\ exit_count' = Put(exit_count, gate_id, 0)
            /\ crossings' = SelectSeq(crossings, LAMBDA c : c.gate_id # gate_id)
            /\ UNCHANGED <<gate_track_positions, crossed_tracks>>
       ELSE /\ entry_count' = ResetAllGates(entry_count, gates, 1, 0)
            /\ exit_count' = ResetAllGates(exit_count, gates, 1, 0)
            /\ crossed_tracks' = ResetAllGates(crossed_tracks, gates, 1, {})
            /\ crossings' = <<>>
            /\ gate_track_positions' = EmptyMap
    /\ call' = [op |-> "gate_reset", gate_id |-> gate_id, raised |-> FALSE]
    /\ UNCHANGED <<now, gates, new_crossings, notGateVars>>

\* BiDirectionalGateCounter.reset
gate_reset(gate_id) ==
    /\ IF gate_id # None
       THEN /\ entry_count' = Put(entry_count, gate_id, 0)
            /\ exit_count' = Put(exit_count, gate_id, 0)
            /\ crossed_tracks' = Put(crossed_tracks, gate_id, {})
            /\ crossings' = SelectSeq(crossings, LAMBDA c : c.gate_id # gate_id)
            /\ UNCHANGED gate_track_positions
       ELSE /\ entry_count' = ResetAllGates(entry_count, gates, 1, 0)
            /\ exit_count' = ResetAllGates(exit_count, gates, 1, 0)
            /\ crossed_tracks' = ResetAllGates(crossed_tracks, gates, 1, {})
            /\ crossings' = <<>>
            /\ gate_track_positions' = EmptyMap
    /\ call' = [op |-> "gate_reset", gate_id |-> gate_id, raised |-> FALSE]
    /\ UNCHANGED <<now, gates, new_crossings, notGateVars>>

\* _get_crossing_direction, called on its own
gate_get_crossing_direction(prev_pos, curr_pos, gate_id) ==
    /\ call' = [op |-> "get_crossing_direction", prev_pos |-> prev_pos,
                curr_pos |-> curr_pos, gate_id |-> gate_id,
                result |-> GetCrossingDirection(prev_pos, curr_pos, gate_id)]
    /\ UNCHANGED <<now, gateVars, notGateVars>>

\* get_gate_stats() for all gates
GateStats ==
    [g \in Range(gates) |->
        [entry_count |-> entry_count[g], exit_count |-> exit_count[g],
         net_count |-> entry_count[g] - exit_count[g],
         total_crossings |-> entry_count[g] + exit_count[g]]]

\* get_flow_rate: the crossings of the gate later than the cutoff, per
\* minute (a window of 60 seconds: the multiplier is 1)
FlowRateWindow == 60
GateFlowRate(gate_id, current_time) ==
    LET recent == SelectSeq(crossings, LAMBDA c :
                     c.gate_id = gate_id
                     /\ c.timestamp > current_time - FlowRateWindow)
        entries == Len(SelectSeq(recent, LAMBDA c : c.direction = "entry"))
        exits == Len(SelectSeq(recent, LAMBDA c : c.direction = "exit"))
    IN [gate_id |-> gate_id, entry_rate |-> entries, exit_rate |-> exits,
        net_rate |-> entries - exits, window_seconds |-> FlowRateWindow]

\* sorted(..., key=timestamp, reverse=True): a stable sort, so crossings of
\* one timestamp keep the order of the log
InsertByTimestamp(sorted, c) ==
    LET ahead == SelectSeq(sorted, LAMBDA d : d.timestamp >= c.timestamp)
        behind == SelectSeq(sorted, LAMBDA d : d.timestamp < c.timestamp)
    IN ahead \o <<c>> \o behind

RECURSIVE SortedByTimestamp(_, _)
SortedByTimestamp(cs, i) ==
    IF i = 0 THEN <<>>
    ELSE InsertByTimestamp(SortedByTimestamp(cs, i - 1), cs[i])

\* get_recent_crossings(limit)
RecentCrossings(limit) ==
    LET sorted == SortedByTimestamp(crossings, Len(crossings))
    IN SubSeq(sorted, 1, IF Len(sorted) < limit THEN Len(sorted) ELSE limit)

\* The query methods of the counter: they read, and return a value
gate_get_gate_stats ==
    /\ call' = [op |-> "get_gate_stats", result |-> GateStats]
    /\ UNCHANGED <<now, gateVars, notGateVars>>

gate_get_flow_rate(gate_id) ==
    /\ call' = [op |-> "get_flow_rate",
                result |-> GateFlowRate(gate_id, now)]
    /\ UNCHANGED <<now, gateVars, notGateVars>>

gate_get_recent_crossings(limit) ==
    /\ call' = [op |-> "get_recent_crossings",
                result |-> RecentCrossings(limit)]
    /\ UNCHANGED <<now, gateVars, notGateVars>>

\* GET /gates/{video_id} for a video of VIDEO_FILES (routes.py): when the
\* video has an active stream the handler first feeds the counter the last
\* detections of the stream's processor
rest_get_gate_stats(stream_active, last_detections) ==
    /\ IF stream_active
       THEN /\ now < MaxGateTicks * TickInterval
            /\ now' = now + TickInterval
            /\ LET st == GateUpdateAll(GateState, gates, last_detections, 1,
                                       now')
               IN /\ gate_track_positions' = st.pos
                  /\ crossings' = st.crossings
                  /\ entry_count' = st.entry
                  /\ exit_count' = st.exit
                  /\ crossed_tracks' = st.crossed
                  /\ new_crossings' = st.new
            /\ UNCHANGED gates
       ELSE UNCHANGED <<now, gateVars>>
    /\ call' = [op |-> "rest_get_gate_stats", stream_active |-> stream_active,
                result |-> [gates |-> GateStats',
                            recent_crossings |-> RecentCrossings(10)']]
    /\ UNCHANGED notGateVars

\* GET /gates/{video_id}/flow-rate
rest_get_gate_flow_rate(gate_id) ==
    /\ call' = [op |-> "rest_get_gate_flow_rate",
                result |-> GateFlowRate(gate_id, now)]
    /\ UNCHANGED <<now, gateVars, notGateVars>>

InitGate ==
    /\ gates = DefaultGates
    /\ gate_track_positions = EmptyMap
    /\ crossings = <<>>
    /\ entry_count = [g \in Range(DefaultGates) |-> 0]
    /\ exit_count = [g \in Range(DefaultGates) |-> 0]
    /\ crossed_tracks = [g \in Range(DefaultGates) |-> {}]
    /\ new_crossings = <<>>

(***************************************************************************)
(* DwellTimeAnalyzer (processors/dwell_analyzer.py)                        *)
(*                                                                         *)
(* DwellRecord objects live in dwell_records and are referred to by index, *)
(* so that a record reachable from two places is one object, as in the     *)
(* code.  An active map is a dict and keeps its insertion order: it is the *)
(* sequence of its (track_id, record) items.                               *)
(***************************************************************************)
CompletedDwellsMaxLen == 1000

DwellZones == <<"darshan_zone", "queue_area", "entry_zone">>

ZonePolygon(zone_id) ==
    CASE zone_id = "darshan_zone" -> <<<<30, 20>>, <<70, 20>>, <<70, 50>>, <<30, 50>>>>
      [] zone_id = "queue_area"   -> <<<<10, 50>>, <<90, 50>>, <<90, 90>>, <<10, 90>>>>
      [] zone_id = "entry_zone"   -> <<<<0, 80>>, <<30, 80>>, <<30, 100>>, <<0, 100>>>>

\* Inputs.  A detection without a track id reaches the analyzer with id "",
\* so several objects of one snapshot can carry the same id.
DwellPoints == {<<50, 30>>, <<20, 85>>, <<95, 10>>}
UntrackedPoints == {<<20, 85>>, <<95, 10>>}
TrackedObjects == {TrackedObject("T001", p) : p \in DwellPoints}
UntrackedObjects == {TrackedObject("", p) : p \in UntrackedPoints}
DwellTracks == {"T001", ""}
DwellSnapshots ==
    {<<>>} \cup {<<o>> : o \in TrackedObjects \cup UntrackedObjects}
           \cup {<<o1, o2>> : o1 \in TrackedObjects \cup UntrackedObjects,
                              o2 \in UntrackedObjects}
DwellResetInputs == {None, "queue_area", "no_such_zone"}

\* Ray casting.  x < (xj - xi) * (y - yi) / (yj - yi) + xi is compared after
\* multiplying by yj - yi, which is not 0 when the first conjunct holds.
EdgeCrossed(x, y, pi, pj) ==
    /\ (pi[2] > y) # (pj[2] > y)
    /\ IF pj[2] - pi[2] > 0
       THEN (x - pi[1]) * (pj[2] - pi[2]) < (pj[1] - pi[1]) * (y - pi[2])
       ELSE (x - pi[1]) * (pj[2] - pi[2]) > (pj[1] - pi[1]) * (y - pi[2])

PointInPolygon(x, y, polygon) ==
    LET n == Len(polygon)
        hits == {i \in 1..n :
                    EdgeCrossed(x, y, polygon[i],
                                polygon[IF i = 1 THEN n ELSE i - 1])}
    IN Cardinality(hits) % 2 = 1

GetZonesForPoint(x, y) ==
    {z \in Range(DwellZones) : PointInPolygon(x, y, ZonePolygon(z))}

\* The analyzer state an update threads through its loops
DwellState ==
    [recs |-> dwell_records, active |-> active_dwells,
     completed |-> completed_dwells, pos |-> dwell_track_positions]

ActiveTracks(st, zone_id) ==
    {st.active[zone_id][i].track_id : i \in DOMAIN st.active[zone_id]}

ActiveRecord(st, zone_id, track_id) ==
    LET i == CHOOSE k \in DOMAIN st.active[zone_id] :
                 st.active[zone_id][k].track_id = track_id
    IN st.active[zone_id][i].rec

DeleteActive(items, track_ids) ==
    SelectSeq(items, LAMBDA it : it.track_id \notin track_ids)

DwellRecord(track_id, zone_id, entry_time) ==
    [track_id |-> track_id, zone_id |-> zone_id, entry_time |-> entry_time,
     exit_time |-> None, dwell_seconds |-> 0, is_active |-> TRUE]

\* Person entered zone
EnterZone(st, track_id, zone_id, current_time) ==
    LET r == Len(st.recs) + 1
    IN [st EXCEPT
           !.recs = Append(@, DwellRecord(track_id, zone_id, current_time)),
           !.active[zone_id] = Append(@, [track_id |-> track_id, rec |-> r])]

CloseRecordWrongDuration(st, r, current_time) ==
    [st EXCEPT !.recs[r].exit_time = current_time,
               !.recs[r].dwell_seconds = current_time,
               !.recs[r].is_active = FALSE,
               !.completed = Append(@, r)]

\* The record is marked as exited and appended to the completed log
CloseRecord(st, r, current_time) ==
    [st EXCEPT !.recs[r].exit_time = current_time,
               !.recs[r].dwell_seconds = current_time - st.recs[r].entry_time,
               !.recs[r].is_active = FALSE,
               !.completed = Append(@, r)]

ExitZoneKeepActive(st, track_id, zone_id, current_time) ==
    CloseRecord(st, ActiveRecord(st, zone_id, track_id), current_time)

\* Person exited zone
ExitZone(st, track_id, zone_id, current_time) ==
    LET closed == CloseRecord(st, ActiveRecord(st, zone_id, track_id),
                              current_time)
    IN [closed EXCEPT !.active[zone_id] = DeleteActive(@, {track_id})]

\* The body of "for zone_id in self.zones", from zone number k on
RECURSIVE DwellZoneLoop(_, _, _, _, _)
DwellZoneLoop(st, track_id, current_zones, k, current_time) ==
    IF k > Len(DwellZones) THEN st
    ELSE LET zone_id == DwellZones[k]
             is_in_zone == zone_id \in current_zones
             has_active_dwell == track_id \in ActiveTracks(st, zone_id)
             st1 == IF is_in_zone /\ ~has_active_dwell
                    THEN EnterZone(st, track_id, zone_id, current_time)
                    ELSE IF ~is_in_zone /\ has_active_dwell
                    THEN ExitZone(st, track_id, zone_id, current_time)
                    ELSE st
         IN DwellZoneLoop(st1, track_id, current_zones, k + 1, current_time)

DwellUpdateObject(st, obj, current_time) ==
    LET p == Normalize(obj.x, obj.y)
        st1 == [st EXCEPT !.pos = Put(@, obj.id, p)]
    IN DwellZoneLoop(st1, obj.id, GetZonesForPoint(p[1], p[2]), 1,
                     current_time)

RECURSIVE DwellUpdateObjects(_, _, _, _)
DwellUpdateObjects(st, tracked_objects, i, current_time) ==
    IF i > Len(tracked_objects) THEN st
    ELSE DwellUpdateObjects(
             DwellUpdateObject(st, tracked_objects[i], current_time),
             tracked_objects, i + 1, current_time)

\* The records of zone_id whose track disappeared, closed in dict order
RECURSIVE CloseVanishedFrom(_, _, _, _, _)
CloseVanishedFrom(st, zone_id, current_track_ids, i, current_time) ==
    IF i > Len(st.active[zone_id]) THEN st
    ELSE LET it == st.active[zone_id][i]
             st1 == IF it.track_id \notin current_track_ids
                    THEN CloseRecord(st, it.rec, current_time)
                    ELSE st
         IN CloseVanishedFrom(st1, zone_id, current_track_ids, i + 1,
                              current_time)

KeepVanished(st, zone_id, current_track_ids, current_time) ==
    st

\* Handle tracks that disappeared, for one zone
RemoveVanished(st, zone_id, current_track_ids, current_time) ==
    LET closed == CloseVanishedFrom(st, zone_id, current_track_ids, 1,
                                    current_time)
        tracks_to_remove == ActiveTracks(st, zone_id) \ current_track_ids
    IN [closed EXCEPT !.active[zone_id] = DeleteActive(@, tracks_to_remove)]

RECURSIVE RemoveVanishedAll(_, _, _, _)
RemoveVanishedAll(st, current_track_ids, k, current_time) ==
    IF k > Len(DwellZones) THEN st
    ELSE RemoveVanishedAll(
             RemoveVanished(st, DwellZones[k], current_track_ids,
                            current_time),
             current_track_ids, k + 1, current_time)

TrackIds(tracked_objects) ==
    {tracked_objects[i].id : i \in DOMAIN tracked_objects}

DwellUpdateResult(st, tracked_objects, current_time) ==
    LET seen == DwellUpdateObjects(st, tracked_objects, 1, current_time)
        swept == RemoveVanishedAll(seen, TrackIds(tracked_objects), 1,
                                   current_time)
    IN [swept EXCEPT !.completed = LastN(@, CompletedDwellsMaxLen)]

dwell_update(tracked_objects) ==
    /\ now < MaxDwellTicks * TickInterval
    /\ now' = now + TickInterval
    /\ LET st == DwellUpdateResult(DwellState, tracked_objects, now')
       IN /\ dwell_records' = st.recs
          /\ active_dwells' = st.active
          /\ completed_dwells' = st.completed
          /\ dwell_track_positions' = st.pos
    /\ call' = [op |-> "dwell_update", objs |-> tracked_objects]
    /\ UNCHANGED notDwellVars

dwell_reset(zone_id) ==
    /\ IF zone_id # None
       THEN /\ active_dwells' =
                   [z \in DOMAIN active_dwells |->
                       IF z = zone_id THEN <<>> ELSE active_dwells[z]]
            /\ completed_dwells' =
                   SelectSeq(completed_dwells,
                             LAMBDA r : dwell_records[r].zone_id # zone_id)
            /\ UNCHANGED dwell_track_positions
       ELSE /\ active_dwells' = [z \in DOMAIN active_dwells |-> <<>>]
            /\ completed_dwells' = <<>>
            /\ dwell_track_positions' = EmptyMap
    /\ call' = [op |-> "dwell_reset", zone_id |-> zone_id, raised |-> FALSE]
    /\ UNCHANGED <<now, dwell_records, notDwellVars>>

\* One tick of _process_loop as the dwell analyzer of a running session
\* sees it: the update is inside "if detections and video_id in
\* self.gate_counters", so a snapshot without detections does not reach it
process_tick(detections) ==
    /\ now < MaxDwellTicks * TickInterval
    /\ now' = now + TickInterval
    /\ IF detections # <<>>
       THEN LET st == DwellUpdateResult(DwellState, detections, now')
            IN /\ dwell_records' = st.recs
               /\ active_dwells' = st.active
               /\ completed_dwells' = st.completed
               /\ dwell_track_positions' = st.pos
       ELSE UNCHANGED dwellVars
    /\ call' = [op |-> "process_tick", objs |-> detections]
    /\ UNCHANGED notDwellVars

InitDwell ==
    /\ dwell_records = <<>>
    /\ active_dwells = [z \in Range(DwellZones) |-> <<>>]
    /\ completed_dwells = <<>>
    /\ dwell_track_positions = EmptyMap

(***************************************************************************)
(* ConnectionManager (api/websocket.py)                                    *)
(*                                                                         *)
(* The manager runs on one asyncio event loop: the code between two awaits *)
(* of a coroutine is atomic.  running is the processing task that holds    *)
(* the event loop (NoTask when every coroutine is suspended); endpoint     *)
(* handlers and the resumption of a suspended task wait for running =      *)
(* NoTask.  VideoProcessor, asyncio.Task and analyzer objects live in        *)
(* processor_objs, task_objs and analyzer_objs and are referred to by      *)
(* index; the four analyzer dicts are filled and emptied together and are  *)
(* one registry here.                                                      *)
(***************************************************************************)
Videos == {"cam1"}
NoTask == 0
NoSocket == 0
Sockets == 1..MaxSockets
\* A task is created by the connect of a socket
TaskIds == 1..MaxSockets
FrameSkip == 2
OpenOutcomes == {"opened", "not_opened", "raised"}

VideoProcessor ==
    [is_processing |-> FALSE, cap |-> None, frame_count |-> 0]

\* The task asyncio.create_task(self._process_loop(video_id, processor))
\* returns.  pc is the place the coroutine is at; after is where it goes on
\* when the broadcast it is in returns; in_handler holds inside the
\* "except Exception" clause.
NewTask(video_id, processor) ==
    [video |-> video_id, processor |-> processor, pc |-> "created",
     cancel_requested |-> FALSE, after |-> None, in_handler |-> FALSE,
     message |-> None, visited |-> {}, iter_size |-> 0, disconnected |-> {},
     current |-> NoSocket, ticks |-> 0]

\* A task that has ended: the frame of its coroutine is gone
Finished(t) ==
    [NewTask(t.video, t.processor) EXCEPT
        !.pc = "done", !.cancel_requested = t.cancel_requested]

SuspendedAt == {"created", "sending", "sleep_skip", "sleep_tick"}

Subscribers(video_id) ==
    IF video_id \in DOMAIN active_connections
    THEN active_connections[video_id] ELSE {}

TaskDone(video_id) == task_objs[tasks[video_id]].pc = "done"

\* The analyzers of a session, in the order the loop updates them, and the
\* number of snapshots each has processed.  Every analyzer is handed the
\* detections of the tick, so equal numbers are equal sequences.
AnalyzerOrder == <<"gate", "flow", "dwell", "anomaly">>
NoFault == "none"
NewAnalyzers ==
    [a \in Range(AnalyzerOrder) \cup {"raised"} |->
        IF a = "raised" THEN NoFault ELSE 0]

\* The analyzers a video loses when its entries are deleted or assigned anew
\* are referenced from nowhere else: they are collected
Collect(objs, video_id) ==
    IF video_id \in DOMAIN analyzers
    THEN [objs EXCEPT ![analyzers[video_id]] = NewAnalyzers]
    ELSE objs

\* start_processing, as the values of the five variables it assigns
StartProcessing(video_id) ==
    LET stopped == IF video_id \in DOMAIN processors
                   THEN [processor_objs EXCEPT
                            ![processors[video_id]].is_processing = FALSE]
                   ELSE processor_objs
        p == Len(processor_objs) + 1
    IN [processor_objs |-> Append(stopped, VideoProcessor),
        processors |-> Put(processors, video_id, p),
        analyzer_objs |-> Append(Collect(analyzer_objs, video_id), NewAnalyzers),
        analyzers |-> Put(analyzers, video_id, Len(analyzer_objs) + 1),
        task_objs |-> Append(task_objs, NewTask(video_id, p)),
        tasks |-> Put(tasks, video_id, Len(task_objs) + 1)]

\* stop_processing that stops the processors and cancels the tasks of every video
StopProcessingEveryVideo(video_id) ==
    [processor_objs |->
        [p \in DOMAIN processor_objs |->
            [processor_objs[p] EXCEPT !.is_processing = FALSE]],
     task_objs |->
        [k \in DOMAIN task_objs |->
            IF task_objs[k].pc # "done"
            THEN [task_objs[k] EXCEPT !.cancel_requested = TRUE]
            ELSE task_objs[k]],
     analyzer_objs |-> Collect(analyzer_objs, video_id),
     analyzers |-> Drop(analyzers, video_id)]

\* stop_processing, as the values of the four variables it assigns
StopProcessing(video_id) ==
    [processor_objs |->
        IF video_id \in DOMAIN processors
        THEN [processor_objs EXCEPT
                 ![processors[video_id]].is_processing = FALSE]
        ELSE processor_objs,
     task_objs |->
        IF video_id \in DOMAIN tasks /\ ~TaskDone(video_id)
        THEN [task_objs EXCEPT ![tasks[video_id]].cancel_requested = TRUE]
        ELSE task_objs,
     analyzer_objs |-> Collect(analyzer_objs, video_id),
     analyzers |-> Drop(analyzers, video_id)]

\* A connect that starts a session whether or not a task of the video is
\* still registered and running
ConnectAlwaysStarts(ws, video_id) ==
    /\ running = NoTask
    /\ sockets[ws].state = "idle"
    /\ LET st == StartProcessing(video_id)
       IN /\ active_connections' =
                 Put(active_connections, video_id,
                     Subscribers(video_id) \cup {ws})
          /\ processor_objs' = st.processor_objs
          /\ processors' = st.processors
          /\ analyzer_objs' = st.analyzer_objs
          /\ analyzers' = st.analyzers
          /\ task_objs' = st.task_objs
          /\ tasks' = st.tasks
    /\ sockets' = [sockets EXCEPT ![ws].state = "open",
                                  ![ws].video = video_id]
    /\ call' = [op |-> "ws_connect", ws |-> ws]
    /\ UNCHANGED <<now, running, notSessionVars>>

\* websocket_endpoint up to its receive loop: manager.connect.  The socket
\* is not known to the manager before websocket.accept() has returned, so
\* the step is the code that follows the accept.
ws_connect(ws, video_id) ==
    /\ running = NoTask
    /\ sockets[ws].state = "idle"
    /\ LET start == video_id \notin DOMAIN tasks \/ TaskDone(video_id)
           st == StartProcessing(video_id)
       IN /\ active_connections' =
                 Put(active_connections, video_id,
                     Subscribers(video_id) \cup {ws})
          /\ IF start
             THEN /\ processor_objs' = st.processor_objs
                  /\ processors' = st.processors
                  /\ analyzer_objs' = st.analyzer_objs
                  /\ analyzers' = st.analyzers
                  /\ task_objs' = st.task_objs
                  /\ tasks' = st.tasks
             ELSE UNCHANGED <<processor_objs, processors, analyzer_objs,
                              analyzers, task_objs, tasks>>
    /\ sockets' = [sockets EXCEPT ![ws].state = "open",
                                  ![ws].video = video_id]
    /\ call' = [op |-> "ws_connect", ws |-> ws]
    /\ UNCHANGED <<now, running, notSessionVars>>

\* The client of an attached socket goes away: its receive raises
\* WebSocketDisconnect in the endpoint, and a send to it can fail
client_drop(ws) ==
    /\ running = NoTask
    /\ sockets[ws].state = "open"
    /\ ~sockets[ws].gone
    /\ sockets' = [sockets EXCEPT ![ws].gone = TRUE, ![ws].stalled = FALSE]
    /\ call' = [op |-> "client_drop", ws |-> ws]
    /\ UNCHANGED <<now, active_connections, processors, processor_objs,
                   tasks, task_objs, analyzers, analyzer_objs, running,
                   notSessionVars>>

\* The client of an attached socket has stopped reading: a send_text to it
\* does not return as long as the client does not go away.  Nothing but that
\* send depends on it, so the step is taken when a send to ws is in flight.
client_stall(ws) ==
    /\ running = NoTask
    /\ sockets[ws].state = "open"
    /\ ~sockets[ws].gone
    /\ ~sockets[ws].stalled
    /\ \E k \in DOMAIN task_objs :
          task_objs[k].pc = "sending" /\ task_objs[k].current = ws
    /\ sockets' = [sockets EXCEPT ![ws].stalled = TRUE]
    /\ call' = [op |-> "client_stall", ws |-> ws]
    /\ UNCHANGED <<now, active_connections, processors, processor_objs,
                   tasks, task_objs, analyzers, analyzer_objs, running,
                   notSessionVars>>

\* The finally clause of websocket_endpoint: manager.disconnect
ws_disconnect(ws) ==
    /\ running = NoTask
    /\ sockets[ws].state = "open"
    /\ sockets[ws].gone
    /\ LET video_id == sockets[ws].video
           rest == Subscribers(video_id) \ {ws}
           st == StopProcessing(video_id)
       IN IF video_id \in DOMAIN active_connections
          THEN IF rest = {}
               THEN /\ processor_objs' = st.processor_objs
                    /\ task_objs' = st.task_objs
                    /\ analyzers' = st.analyzers
                    /\ analyzer_objs' = st.analyzer_objs
                    /\ active_connections' = Drop(active_connections, video_id)
               ELSE /\ active_connections' =
                           Put(active_connections, video_id, rest)
                    /\ UNCHANGED <<processor_objs, task_objs, analyzers,
                                   analyzer_objs>>
          ELSE UNCHANGED <<processor_objs, task_objs, analyzers,
                           analyzer_objs, active_connections>>
    /\ sockets' = [sockets EXCEPT ![ws].state = "closed"]
    /\ call' = [op |-> "ws_disconnect", ws |-> ws]
    /\ UNCHANGED <<now, processors, tasks, running, notSessionVars>>

\* What a step of task k leaves alone besides task_objs
LoopFrame ==
    <<now, sockets, processors, tasks, analyzers, notSessionVars>>

\* A task that was cancelled is resumed with CancelledError: one that never
\* started ends at once, one suspended in the loop goes to the finally clause
loop_cancelled(k) ==
    /\ k \in DOMAIN task_objs
    /\ running = NoTask
    /\ task_objs[k].pc \in SuspendedAt
    /\ task_objs[k].cancel_requested
    /\ IF task_objs[k].pc = "created"
       THEN /\ task_objs' = [task_objs EXCEPT ![k] = Finished(@)]
            /\ UNCHANGED running
       ELSE /\ task_objs' = [task_objs EXCEPT ![k].pc = "finally"]
            /\ running' = k
    /\ call' = [op |-> "loop_cancelled", task |-> k]
    /\ UNCHANGED <<active_connections, processor_objs, analyzer_objs,
                   LoopFrame>>

\* _process_loop starts: processor.open()
loop_start(k, outcome) ==
    /\ k \in DOMAIN task_objs
    /\ running = NoTask
    /\ task_objs[k].pc = "created"
    /\ ~task_objs[k].cancel_requested
    /\ running' = k
    /\ LET p == task_objs[k].processor
       IN CASE outcome = "opened" ->
                 /\ processor_objs' = [processor_objs EXCEPT
                        ![p].cap = "capture", ![p].is_processing = TRUE]
                 /\ task_objs' = [task_objs EXCEPT ![k].pc = "top"]
            [] outcome = "not_opened" ->
                 /\ processor_objs' = [processor_objs EXCEPT ![p].cap = "capture"]
                 /\ task_objs' = [task_objs EXCEPT
                        ![k].pc = "broadcast", ![k].message = "error",
                        ![k].after = "finally"]
            [] outcome = "raised" ->
                 /\ UNCHANGED processor_objs
                 /\ task_objs' = [task_objs EXCEPT
                        ![k].pc = "broadcast", ![k].message = "error",
                        ![k].after = "finally", ![k].in_handler = TRUE]
    /\ call' = [op |-> "loop_start", task |-> k, outcome |-> outcome]
    /\ UNCHANGED <<active_connections, analyzer_objs, LoopFrame>>

\* The condition of the while statement
LoopCondition(k) ==
    /\ processor_objs[task_objs[k].processor].is_processing
    /\ task_objs[k].video \in DOMAIN active_connections

loop_check(k) ==
    /\ k \in DOMAIN task_objs
    /\ running = k
    /\ task_objs[k].pc = "top"
    /\ task_objs' = [task_objs EXCEPT
           ![k].pc = IF LoopCondition(k) THEN "read" ELSE "finally"]
    /\ call' = [op |-> "loop_check", task |-> k]
    /\ UNCHANGED <<active_connections, processor_objs, analyzer_objs,
                   running, LoopFrame>>

\* processor.cap.read(), and the frame skip
loop_read(k, ret) ==
    /\ k \in DOMAIN task_objs
    /\ running = k
    /\ task_objs[k].pc = "read"
    /\ LET p == task_objs[k].processor
           frame_count == (processor_objs[p].frame_count + 1) % FrameSkip
       IN IF ~ret
          THEN /\ task_objs' = [task_objs EXCEPT ![k].pc = "top"]
               /\ UNCHANGED <<processor_objs, running>>
          ELSE /\ processor_objs' =
                      [processor_objs EXCEPT ![p].frame_count = frame_count]
               /\ IF frame_count # 0
                  THEN /\ task_objs' = [task_objs EXCEPT ![k].pc = "sleep_skip"]
                       /\ running' = NoTask
                  ELSE /\ task_objs[k].ticks < MaxTicks
                       /\ task_objs' = [task_objs EXCEPT ![k].pc = "process"]
                       /\ UNCHANGED running
    /\ call' = [op |-> "loop_read", task |-> k, ret |-> ret]
    /\ UNCHANGED <<active_connections, analyzer_objs, LoopFrame>>

IndexOf(a) == CHOOSE i \in DOMAIN AnalyzerOrder : AnalyzerOrder[i] = a

\* process_frame, and the test that guards the analyzers: a tick begins.
\* pc names the analyzer whose update comes next.
loop_process(k, detections) ==
    /\ k \in DOMAIN task_objs
    /\ running = k
    /\ task_objs[k].pc = "process"
    /\ LET video_id == task_objs[k].video
       IN IF detections /\ video_id \in DOMAIN analyzers
          THEN task_objs' = [task_objs EXCEPT
                   ![k].pc = AnalyzerOrder[1], ![k].ticks = @ + 1]
          ELSE task_objs' = [task_objs EXCEPT
                   ![k].pc = "broadcast", ![k].message = "result",
                   ![k].after = "sleep_tick", ![k].ticks = @ + 1]
    /\ call' = [op |-> "loop_tick", task |-> k, detections |-> detections,
                subscribers |-> Subscribers(task_objs[k].video)]
    /\ UNCHANGED <<active_connections, processor_objs, analyzer_objs,
                   running, LoopFrame>>

\* One analyzer has processed the snapshot of the tick, or its update raised
UpdateAnalyzer(counts, a, raises) ==
    IF raises
    THEN [counts EXCEPT !.raised = a]
    ELSE [counts EXCEPT ![a] = @ + 1]

\* The task after the update of analyzer a: at the next update, at the
\* broadcast of the result after the last one, or in the "except Exception"
\* clause when the update raised
AfterUpdate(t, a, raises) ==
    IF raises
    THEN [t EXCEPT !.pc = "broadcast", !.message = "error",
                   !.after = "finally", !.in_handler = TRUE]
    ELSE IF IndexOf(a) < Len(AnalyzerOrder)
         THEN [t EXCEPT !.pc = AnalyzerOrder[IndexOf(a) + 1]]
         ELSE [t EXCEPT !.pc = "broadcast", !.message = "result",
                        !.after = "sleep_tick"]

SuspendedBetweenUpdates(k) == NoTask

\* Lines 154-163 hold no await: the task keeps the event loop from one
\* update to the next
RunningBetweenUpdates(k) == k

\* Lines 154-163, one update: self.<analyzers>[video_id].update(detections)
analyzer_update(k, raises) ==
    /\ k \in DOMAIN task_objs
    /\ running = k
    /\ task_objs[k].pc \in Range(AnalyzerOrder)
    /\ LET a == task_objs[k].pc
           video_id == task_objs[k].video
       IN /\ analyzer_objs' = [analyzer_objs EXCEPT
                 ![analyzers[video_id]] = UpdateAnalyzer(@, a, raises)]
          /\ task_objs' = [task_objs EXCEPT ![k] = AfterUpdate(@, a, raises)]
          /\ call' = [op |-> "analyzer_update", task |-> k, analyzer |-> a,
                      raises |-> raises]
    /\ running' = RunningBetweenUpdates(k)
    /\ UNCHANGED <<active_connections, processor_objs, LoopFrame>>

\* Where the coroutine goes on when its broadcast has returned
AfterBroadcast(t) ==
    [t EXCEPT !.pc = t.after, !.visited = {}, !.disconnected = {},
              !.current = NoSocket, !.iter_size = 0]

\* broadcast, up to the for statement
broadcast_begin(k) ==
    /\ k \in DOMAIN task_objs
    /\ running = k
    /\ task_objs[k].pc = "broadcast"
    /\ LET t == task_objs[k]
       IN IF t.video \notin DOMAIN active_connections
          THEN /\ task_objs' = [task_objs EXCEPT ![k] = AfterBroadcast(t)]
               /\ running' = IF t.after = "sleep_tick" THEN NoTask ELSE k
          ELSE /\ task_objs' = [task_objs EXCEPT
                      ![k].pc = "next", ![k].visited = {},
                      ![k].disconnected = {},
                      ![k].iter_size = Cardinality(Subscribers(t.video))]
               /\ UNCHANGED running
    /\ call' = [op |-> "broadcast_begin", task |-> k]
    /\ UNCHANGED <<active_connections, processor_objs, analyzer_objs,
                   LoopFrame>>

\* The for statement takes the next websocket of the set.  A set that
\* changed size since the iteration began raises RuntimeError, which
\* _process_loop catches with "except Exception", unless it is raised in
\* that clause.
broadcast_next(k) ==
    /\ k \in DOMAIN task_objs
    /\ running = k
    /\ task_objs[k].pc = "next"
    /\ LET t == task_objs[k]
           rest == Subscribers(t.video) \ t.visited
       IN IF Cardinality(Subscribers(t.video)) # t.iter_size
          THEN /\ task_objs' = [task_objs EXCEPT ![k] =
                      IF t.in_handler
                      THEN [AfterBroadcast(t) EXCEPT !.pc = "finally"]
                      ELSE [AfterBroadcast(t) EXCEPT
                               !.pc = "broadcast", !.message = "error",
                               !.after = "finally", !.in_handler = TRUE]]
               /\ UNCHANGED running
          ELSE IF rest = {}
          THEN /\ task_objs' = [task_objs EXCEPT ![k].pc = "cleanup"]
               /\ UNCHANGED running
          ELSE /\ \E ws \in rest :
                     task_objs' = [task_objs EXCEPT
                         ![k].pc = "sending", ![k].current = ws,
                         ![k].visited = @ \cup {ws}]
               /\ running' = NoTask
    /\ call' = [op |-> "broadcast_next", task |-> k]
    /\ UNCHANGED <<active_connections, processor_objs, analyzer_objs,
                   LoopFrame>>

\* await websocket.send_text(data) returns or raises; it can raise only
\* when the client is gone, and return only when the client reads
send_done(k, delivered) ==
    /\ k \in DOMAIN task_objs
    /\ running = NoTask
    /\ task_objs[k].pc = "sending"
    /\ ~task_objs[k].cancel_requested
    /\ ~sockets[task_objs[k].current].stalled
    /\ delivered \/ sockets[task_objs[k].current].gone
    /\ running' = k
    /\ task_objs' = [task_objs EXCEPT
           ![k].pc = "next",
           ![k].disconnected =
               IF delivered THEN @ ELSE @ \cup {task_objs[k].current}]
    /\ call' = [op |-> "send_done", task |-> k, ws |-> task_objs[k].current,
                delivered |-> delivered]
    /\ UNCHANGED <<active_connections, processor_objs, analyzer_objs,
                   LoopFrame>>

DiscardNothing(conns, video_id, disconnected) ==
    conns

\* for ws in disconnected: self.active_connections[video_id].discard(ws)
DiscardDisconnected(conns, video_id, disconnected) ==
    [conns EXCEPT ![video_id] = @ \ disconnected]

\* Clean up disconnected, and the return of broadcast
broadcast_cleanup(k) ==
    /\ k \in DOMAIN task_objs
    /\ running = k
    /\ task_objs[k].pc = "cleanup"
    /\ LET t == task_objs[k]
       IN /\ IF t.disconnected # {}
             THEN active_connections' =
                      DiscardDisconnected(active_connections, t.video,
                                          t.disconnected)
             ELSE UNCHANGED active_connections
          /\ task_objs' = [task_objs EXCEPT ![k] = AfterBroadcast(t)]
          /\ running' = IF t.after = "sleep_tick" THEN NoTask ELSE k
    /\ call' = [op |-> "broadcast_cleanup", task |-> k,
                message |-> task_objs[k].message,
                delivered |-> task_objs[k].visited \ task_objs[k].disconnected,
                dropped |-> task_objs[k].disconnected]
    /\ UNCHANGED <<processor_objs, analyzer_objs, LoopFrame>>

\* asyncio.sleep returns
loop_wake(k) ==
    /\ k \in DOMAIN task_objs
    /\ running = NoTask
    /\ task_objs[k].pc \in {"sleep_skip", "sleep_tick"}
    /\ ~task_objs[k].cancel_requested
    /\ running' = k
    /\ task_objs' = [task_objs EXCEPT ![k].pc = "top"]
    /\ call' = [op |-> "loop_wake", task |-> k]
    /\ UNCHANGED <<active_connections, processor_objs, analyzer_objs,
                   LoopFrame>>

\* finally: processor.close()
loop_finally(k) ==
    /\ k \in DOMAIN task_objs
    /\ running = k
    /\ task_objs[k].pc = "finally"
    /\ processor_objs' = [processor_objs EXCEPT
           ![task_objs[k].processor].cap = None,
           ![task_objs[k].processor].is_processing = FALSE]
    /\ task_objs' = [task_objs EXCEPT ![k] = Finished(@)]
    /\ running' = NoTask
    /\ call' = [op |-> "loop_finally", task |-> k]
    /\ UNCHANGED <<active_connections, analyzer_objs, LoopFrame>>

InitSession ==
    /\ sockets = [ws \in Sockets |->
                     [state |-> "idle", video |-> None, gone |-> FALSE,
                      stalled |-> FALSE]]
    /\ active_connections = EmptyMap
    /\ processors = EmptyMap
    /\ processor_objs = <<>>
    /\ tasks = EmptyMap
    /\ task_objs = <<>>
    /\ analyzers = EmptyMap
    /\ analyzer_objs = <<>>
    /\ running = NoTask


(***************************************************************************)
(* Specifications                                                          *)
(***************************************************************************)
(***************************************************************************)
(* QueueAnalyzer.set_service_rate (processors/queue_analyzer.py) and       *)
(* MetricsCalculator.set_zone_area (processors/metrics.py)                 *)
(***************************************************************************)
\* Rates are in tenths of a person per minute: 0.1 is 1, the default 2.0 is 20
DefaultServiceRate == 20
MinServiceRate == 1
DefaultZoneAreaSqm == 100

ServiceRateInputs == {-10, 0, 30}
ZoneAreaInputs == {-50, 0, 200}
ConfigKeyInputs == {"density_critical", "queue_long", "no_such_key"}
ConfigValueInputs == {-5, 20}

\* self.service_rate = max(0.1, rate)
set_service_rate(rate) ==
    /\ service_rate' = IF rate > MinServiceRate THEN rate ELSE MinServiceRate
    /\ call' = [op |-> "set_service_rate", value |-> rate, raised |-> FALSE]
    /\ UNCHANGED <<now, zone_area_sqm, notConfigVars>>

\* self.zone_area_sqm = area_sqm
set_zone_area(area_sqm) ==
    /\ zone_area_sqm' = area_sqm
    /\ call' = [op |-> "set_zone_area", value |-> area_sqm, raised |-> FALSE]
    /\ UNCHANGED <<now, service_rate, notConfigVars>>

InitConfig ==
    /\ service_rate = DefaultServiceRate
    /\ zone_area_sqm = DefaultZoneAreaSqm

(***************************************************************************)
(* FlowAnalyzer                                                            *)
(* Positions are kept in thousandths of the frame, so that the movement    *)
(* thresholds 0.005, 0.015 and 0.02 are the integers 5, 15 and 20; a       *)
(* magnitude is compared through its square.                               *)
(***************************************************************************)
\* __init__: the default of the angle_threshold argument
DefaultAngleThreshold == 120

\* An Optional attribute is a list: empty for None, else of the one value
NoFlow == <<>>
NoHeatmap == <<>>
FlowTrajectoryMaxLen == 20
FlowHistoryMaxLen == 100
DominantFlowWindow == 50

\* update, lines 111-114: a position given in percent is divided by 100
FlowNormalize(x, y) ==
    IF x > 1 \/ y > 1 THEN <<10 * x, 10 * y>> ELSE <<1000 * x, 1000 * y>>

Abs(n) == IF n < 0 THEN -n ELSE n

Min(a, b) == IF a <= b THEN a ELSE b

\* _calculate_angle: degrees(atan2(dy, dx)) % 360, on the vectors that lie on
\* an axis or a diagonal (the movements of the model lie on the x axis)
CalculateAngle(dx, dy) ==
    CASE dy = 0 /\ dx >= 0 -> 0
      [] dx > 0 /\ dy = dx -> 45
      [] dx = 0 /\ dy > 0 -> 90
      [] dx < 0 /\ dy = -dx -> 135
      [] dy = 0 /\ dx < 0 -> 180
      [] dx < 0 /\ dy = dx -> 225
      [] dx = 0 /\ dy < 0 -> 270
      [] dx > 0 /\ dy = -dx -> 315

AngleDifferenceUnwrapped(angle1, angle2) == Abs(angle1 - angle2)

\* _angle_difference
AngleDifference(angle1, angle2) ==
    LET diff == Abs(angle1 - angle2)
    IN Min(diff, 360 - diff)

\* _classify_severity, on the squared magnitude
ClassifySeverity(deviation, magnitude2) ==
    IF deviation > 160 /\ magnitude2 > 20 * 20 THEN "severe"
    ELSE IF deviation > 140 \/ magnitude2 > 15 * 15 THEN "moderate"
    ELSE "mild"

\* sum(v.field for v in vectors[lo..hi]), by halves
RECURSIVE SumField(_, _, _, _)
SumField(vectors, lo, hi, field) ==
    IF lo > hi THEN 0
    ELSE IF lo = hi THEN vectors[lo][field]
    ELSE SumField(vectors, lo, (lo + hi) \div 2, field)
         + SumField(vectors, (lo + hi) \div 2 + 1, hi, field)

\* _calculate_dominant_flow: the magnitude-weighted mean of the unit vectors
\* is the sum of the displacements over the sum of the magnitudes; every
\* stored magnitude is positive, so the total weight is zero only for the
\* empty list, and the mean has the angle of the summed displacement
CalculateDominantFlow(recent_vectors) ==
    LET sum_x == SumField(recent_vectors, 1, Len(recent_vectors), "dx")
        sum_y == SumField(recent_vectors, 1, Len(recent_vectors), "dy")
    IN IF recent_vectors = <<>> THEN NoFlow
       ELSE IF sum_x # 0 \/ sum_y # 0
            THEN <<[angle |-> CalculateAngle(sum_x, sum_y)]>>
            ELSE NoFlow

\* _update_heatmap: the count channel of the 50 x 50 grid
UpdateHeatmap(heatmap, p) ==
    LET cell == <<Min(p[1] \div 20, 49), Min(p[2] \div 20, 49)>>
        grid == IF heatmap = NoHeatmap THEN EmptyMap ELSE heatmap[1]
    IN <<Put(grid, cell, GetInt(grid, cell) + 1)>>

FlowState ==
    [pos |-> flow_track_positions, history |-> flow_history,
     events |-> counter_flow_events, dominant |-> dominant_flow,
     heatmap |-> direction_heatmap, new |-> new_counter_flow,
     threshold |-> angle_threshold]

\* An analyzer just constructed
NewFlowAnalyzer ==
    [pos |-> EmptyMap, history |-> <<>>, events |-> <<>>,
     dominant |-> NoFlow, heatmap |-> NoHeatmap, new |-> <<>>,
     threshold |-> DefaultAngleThreshold]

\* update, lines 106-163: one tracked object
FlowUpdateObject(st, dominant, obj, t) ==
    LET p == FlowNormalize(obj.x, obj.y)
        prev_positions == GetList(st.pos, obj.id)
        last == prev_positions[Len(prev_positions)]
        dt == t - last[3]
        dx == p[1] - last[1]
        dy == p[2] - last[2]
        magnitude2 == dx * dx + dy * dy
        moved == /\ prev_positions # <<>>
                 /\ dt > 0 /\ dt < 2
                 /\ magnitude2 > 5 * 5
        angle == CalculateAngle(dx, dy)
        deviation == AngleDifference(angle, dominant[1].angle)
        event == [track_id |-> obj.id, timestamp |-> t, position |-> p,
                  movement_angle |-> angle,
                  dominant_flow_angle |-> dominant[1].angle,
                  deviation_angle |-> deviation,
                  severity |-> ClassifySeverity(deviation, magnitude2)]
        st1 == IF moved
               THEN [st EXCEPT
                       !.vectors = Append(@, [dx |-> dx, dy |-> dy,
                                              angle |-> angle]),
                       !.heatmap = UpdateHeatmap(@, p)]
               ELSE st
        st2 == IF moved /\ dominant # NoFlow /\ deviation > st.threshold
               THEN [st1 EXCEPT !.events = Append(@, event),
                                !.new = Append(@, event)]
               ELSE st1
    IN [st2 EXCEPT !.pos =
            Put(st2.pos, obj.id,
                LastN(Append(prev_positions, <<p[1], p[2], t>>),
                      FlowTrajectoryMaxLen))]

RECURSIVE FlowUpdateAll(_, _, _, _, _)
FlowUpdateAll(st, dominant, objs, i, t) ==
    IF i > Len(objs) THEN st
    ELSE FlowUpdateAll(FlowUpdateObject(st, dominant, objs[i], t),
                       dominant, objs, i + 1, t)

\* An update that compares the movements of a tick with the dominant flow
\* of the history that already holds the vectors of the tick
FlowUpdateAgainstCurrent(fl, tracked_objects, t) ==
    LET first == FlowUpdateAll([pos |-> fl.pos, vectors |-> <<>>,
                                events |-> fl.events, new |-> <<>>,
                                heatmap |-> fl.heatmap,
                                threshold |-> fl.threshold],
                               NoFlow, tracked_objects, 1, t)
        history == LastN(fl.history \o first.vectors, FlowHistoryMaxLen)
        dominant == CalculateDominantFlow(LastN(history, DominantFlowWindow))
        st == FlowUpdateAll([pos |-> fl.pos, vectors |-> <<>>,
                             events |-> fl.events, new |-> <<>>,
                             heatmap |-> fl.heatmap,
                             threshold |-> fl.threshold],
                            dominant, tracked_objects, 1, t)
    IN [pos |-> st.pos, history |-> history, events |-> st.events,
        dominant |-> dominant,
        heatmap |-> st.heatmap, new |-> st.new, threshold |-> fl.threshold]

\* FlowAnalyzer.update, as a function of the analyzer's state
FlowUpdate(fl, tracked_objects, t) ==
    LET st == FlowUpdateAll([pos |-> fl.pos, vectors |-> <<>>,
                             events |-> fl.events, new |-> <<>>,
                             heatmap |-> fl.heatmap,
                             threshold |-> fl.threshold],
                            fl.dominant, tracked_objects, 1, t)
        history == LastN(fl.history \o st.vectors, FlowHistoryMaxLen)
    IN [pos |-> st.pos, history |-> history, events |-> st.events,
        dominant |->
            CalculateDominantFlow(LastN(history, DominantFlowWindow)),
        heatmap |-> st.heatmap, new |-> st.new, threshold |-> fl.threshold]

\* FlowAnalyzer.update; one call per tick of the session
flow_update(tracked_objects) ==
    /\ now < MaxFlowTicks * TickInterval
    /\ now' = now + TickInterval
    /\ LET fl == FlowUpdate(FlowState, tracked_objects, now')
       IN /\ flow_track_positions' = fl.pos
          /\ counter_flow_events' = fl.events
          /\ new_counter_flow' = fl.new
          /\ direction_heatmap' = fl.heatmap
          /\ flow_history' = fl.history
          /\ dominant_flow' = fl.dominant
    /\ call' = [op |-> "flow_update", objs |-> tracked_objects]
    /\ UNCHANGED <<angle_threshold, notFlowVars>>

FlowResetDropsOldest ==
    /\ flow_track_positions' = EmptyMap
    /\ flow_history' = IF flow_history = <<>> THEN <<>> ELSE Tail(flow_history)
    /\ counter_flow_events' = <<>>
    /\ dominant_flow' = NoFlow
    /\ direction_heatmap' = NoHeatmap
    /\ call' = [op |-> "flow_reset", raised |-> FALSE,
                repeated |-> call.op = "flow_reset"]
    /\ UNCHANGED <<now, new_counter_flow, angle_threshold, notFlowVars>>

\* FlowAnalyzer.reset
flow_reset ==
    /\ flow_track_positions' = EmptyMap
    /\ flow_history' = <<>>
    /\ counter_flow_events' = <<>>
    /\ dominant_flow' = NoFlow
    /\ direction_heatmap' = NoHeatmap
    /\ call' = [op |-> "flow_reset", raised |-> FALSE,
                repeated |-> call.op = "flow_reset"]
    /\ UNCHANGED <<now, new_counter_flow, angle_threshold, notFlowVars>>

\* _angle_difference, called on its own
flow_angle_difference(angle1, angle2) ==
    /\ call' = [op |-> "angle_difference", angle1 |-> angle1,
                angle2 |-> angle2,
                result |-> AngleDifference(angle1, angle2)]
    /\ UNCHANGED <<now, flowVars, notFlowVars>>

FlowPoints == {<<50, 50>>, <<52, 50>>, <<54, 50>>}

FlowSnapshots ==
    {Snapshot(p1, p2) : p1 \in FlowPoints \cup {Absent},
                        p2 \in FlowPoints \cup {Absent}}

\* Angles in [0, 360): the ends, the quadrants, and pairs on both sides of a
\* difference of 180
AngleInputs == {0, 1, 45, 90, 120, 135, 179, 180, 181, 225, 270, 300, 359}

\* The time of snapshot i of n that were processed one per tick, the last
\* of them at time 0
TimeOf(i, n) == (i - n) * TickInterval

\* The analyzer after it has processed snapshots lo..hi, by halves.  (A
\* length is never negative: the test has the state at lo computed before
\* the snapshots are processed.)
RECURSIVE FlowAfter(_, _, _, _)
FlowAfter(fl, snapshots, lo, hi) ==
    IF lo > hi \/ Len(fl.history) < 0 THEN fl
    ELSE IF lo = hi
    THEN FlowUpdate(fl, snapshots[lo], TimeOf(lo, Len(snapshots)))
    ELSE FlowAfter(FlowAfter(fl, snapshots, lo, (lo + hi) \div 2),
                   snapshots, (lo + hi) \div 2 + 1, hi)

InitFlowAs(fl) ==
    /\ flow_track_positions = fl.pos
    /\ flow_history = fl.history
    /\ counter_flow_events = fl.events
    /\ dominant_flow = fl.dominant
    /\ direction_heatmap = fl.heatmap
    /\ new_counter_flow = fl.new
    /\ angle_threshold = fl.threshold

InitFlow == InitFlowAs(NewFlowAnalyzer)

(***************************************************************************)
(* AnomalyDetector                                                         *)
(* Positions are in thousandths of the frame, as in the flow analyzer; a   *)
(* velocity, an aspect ratio and a confidence are exact fractions.         *)
(***************************************************************************)
RECURSIVE GCD(_, _)
GCD(a, b) == IF b = 0 THEN a ELSE GCD(b, a % b)

\* The fraction n / d in lowest terms, d > 0
Rat(n, d) ==
    LET g == GCD(Abs(n), d)
    IN IF n >= 0 THEN [n |-> n \div g, d |-> d \div g]
       ELSE [n |-> -(Abs(n) \div g), d |-> d \div g]

RatZero == Rat(0, 1)
RatOne == Rat(1, 1)
RatAdd(a, b) == Rat(a.n * b.d + b.n * a.d, a.d * b.d)
RatLess(a, b) == a.n * b.d < b.n * a.d
\* a * n / d, for integers n >= 0 and d > 0
RatScale(a, n, d) == Rat(a.n * n, a.d * d)
RatMin(a, b) == IF RatLess(b, a) THEN b ELSE a
\* a / b, for b > 0
RatDiv(a, b) == Rat(a.n * b.d, a.d * b.n)

\* sum(s[lo..hi]), by halves
RECURSIVE RatSum(_, _, _)
RatSum(s, lo, hi) ==
    IF lo > hi THEN RatZero
    ELSE IF lo = hi THEN s[lo]
    ELSE RatAdd(RatSum(s, lo, (lo + hi) \div 2),
                RatSum(s, (lo + hi) \div 2 + 1, hi))

RatMean(s) == RatScale(RatSum(s, 1, Len(s)), 1, Len(s))

fall_aspect_ratio_threshold == RatOne
sudden_stop_velocity_threshold == 5
sudden_stop_window == 5
stationary_threshold == 2
stationary_frames == 30
AnomalyTrajectoryMaxLen == 100
VelocityHistoryMaxLen == 200
AnomalyEventsMaxLen == 500
StationaryQuietSeconds == 30
SurgeQuietSeconds == 60

\* sqrt(dx ** 2 + dy ** 2), on the displacements along one axis
Distance(a, b) ==
    LET dx == b.x - a.x
        dy == b.y - a.y
    IN CASE dy = 0 -> Abs(dx)
         [] dx = 0 -> Abs(dy)

\* _calculate_velocity
CalculateVelocity(pos1, pos2, dt) ==
    IF dt <= 0 THEN RatZero ELSE Rat(Distance(pos1, pos2), dt)

\* _calculate_aspect_ratio
CalculateAspectRatio(detection) ==
    IF detection.height = 0 THEN RatZero
    ELSE Rat(detection.width, detection.height)


AnomalyEvent(st, type, t, position, track_id, confidence, severity) ==
    [event_id |-> st.counter + 1, event_type |-> type, timestamp |-> t,
     position |-> position, track_id |-> track_id,
     confidence |-> confidence, severity |-> severity]

\* The event built by a check is appended to new_anomalies; building it has
\* advanced event_counter (_generate_event_id)
Flag(st, event) ==
    [st EXCEPT !.counter = @ + 1, !.new = Append(@, event)]

\* _check_fall_detection: the points the current box scores
FallIndicators(current, history) ==
    LET recent == LastN(history, 10)
        n == Len(recent)
        current_aspect == CalculateAspectRatio(current)
        avg_aspect == RatMean([i \in 1..n |-> CalculateAspectRatio(recent[i])])
        sum_height == SumField(recent, 1, n, "height")
        sum_y == SumField(recent, 1, n, "y")
    IN (IF /\ RatLess(RatScale(avg_aspect, 3, 2), current_aspect)
           /\ RatLess(fall_aspect_ratio_threshold, current_aspect)
        THEN 2 ELSE 0)
       + (IF 5 * n * current.height < 3 * sum_height /\ sum_height > 0
          THEN 2 ELSE 0)
       + (IF 5 * n * current.y > 6 * sum_y /\ current.y > 0 THEN 1 ELSE 0)

FallSeverity(confidence) ==
    IF RatLess(Rat(8, 10), confidence) THEN "critical"
    ELSE IF RatLess(Rat(6, 10), confidence) THEN "high"
    ELSE "medium"

\* update, lines 293-295, with _check_fall_detection
FallEvent(st, track_id, current, confidence, t) ==
    AnomalyEvent(st, "fall", t, <<current.x, current.y>>, track_id,
                 confidence, FallSeverity(confidence))

FlagFall(st, track_id, current, history, fall_indicators, t) ==
    IF Len(history) >= 5 /\ fall_indicators >= 3
    THEN Flag(st, FallEvent(st, track_id, current,
                            RatMin(Rat(fall_indicators, 5), RatOne), t))
    ELSE st

CheckFallDetection(st, track_id, current, history, t) ==
    FlagFall(st, track_id, current, history,
             FallIndicators(current, history), t)

\* update, lines 297-299, with _check_sudden_stop
CheckSuddenStop(st, crowd, track_id, current, history, t) ==
    LET n == Len(history)
        last == history[n]
        dt == current.timestamp - last.timestamp
        current_velocity == IF dt > 0 THEN CalculateVelocity(last, current, dt)
                            ELSE RatZero
        old1 == history[n - sudden_stop_window - 1]
        old2 == history[n - sudden_stop_window]
        old_time_diff == old2.timestamp - old1.timestamp
        previous_velocity ==
            IF old_time_diff > 0
            THEN CalculateVelocity(old1, old2, old_time_diff)
            ELSE RatZero
    IN IF /\ n >= sudden_stop_window + 5
          /\ RatLess(Rat(sudden_stop_velocity_threshold * 3, 1),
                     previous_velocity)
          /\ RatLess(current_velocity,
                     Rat(sudden_stop_velocity_threshold, 1))
          /\ RatLess(Rat(sudden_stop_velocity_threshold * 2, 1), crowd)
       THEN Flag(st, AnomalyEvent(st, "sudden_stop", t,
                                  <<current.x, current.y>>, track_id,
                                  Rat(7, 10), "medium"))
       ELSE st

\* The movement over recent[lo-1..hi], by halves
RECURSIVE TotalMovement(_, _, _)
TotalMovement(recent, lo, hi) ==
    IF lo > hi THEN 0
    ELSE IF lo = hi THEN Distance(recent[lo - 1], recent[lo])
    ELSE TotalMovement(recent, lo, (lo + hi) \div 2)
         + TotalMovement(recent, (lo + hi) \div 2 + 1, hi)

\* _check_stationary_person: whether it returns an event
StationaryPerson(crowd, history, frames) ==
    LET recent == LastN(history, frames)
    IN /\ Len(history) >= frames
       /\ TotalMovement(recent, 2, Len(recent))
             < stationary_threshold * Len(recent)
       /\ RatLess(Rat(stationary_threshold * 3, 1), crowd)

\* update, lines 301-309, with _check_stationary_person: an event the check
\* returns is dropped when the log holds one of the track from the last 30
\* seconds; event_counter has advanced all the same
CheckStationaryPerson(st, events, crowd, track_id, history, t) ==
    LET latest == history[Len(history)]
        event == AnomalyEvent(st, "stationary_person", t,
                              <<latest.x, latest.y>>, track_id,
                              Rat(6, 10), "low")
        recent_stationary ==
            {i \in DOMAIN events :
                /\ events[i].track_id = track_id
                /\ events[i].event_type = "stationary_person"
                /\ t - events[i].timestamp < StationaryQuietSeconds}
    IN IF StationaryPerson(crowd, history, stationary_frames)
       THEN IF recent_stationary = {} THEN Flag(st, event)
            ELSE [st EXCEPT !.counter = @ + 1]
       ELSE st

\* update, lines 311-314: the record joins the history of its track, which
\* is cut to its last 100 records
StoreRecord(st, track_id, history, record) ==
    [st EXCEPT !.hist =
        Put(st.hist, track_id,
            LastN(Append(history, record), AnomalyTrajectoryMaxLen))]

\* update, lines 263-314: one tracked object
AnomalyUpdateObject(st, events, crowd, obj, t) ==
    LET p == FlowNormalize(obj.x, obj.y)
        record == [x |-> p[1], y |-> p[2], width |-> obj.width,
                   height |-> obj.height, timestamp |-> t]
        history == GetList(st.hist, obj.id)
        prev == history[Len(history)]
        dt == t - prev.timestamp
        st1 == IF history # <<>> /\ dt > 0
               THEN [st EXCEPT !.frame_velocities =
                        Append(@, CalculateVelocity(prev, record, dt))]
               ELSE st
        st2 == CheckFallDetection(st1, obj.id, record, history, t)
        st3 == CheckSuddenStop(st2, crowd, obj.id, record, history, t)
    IN StoreRecord(CheckStationaryPerson(st3, events, crowd, obj.id,
                                         history, t),
                   obj.id, history, record)

RECURSIVE AnomalyUpdateAll(_, _, _, _, _, _)
AnomalyUpdateAll(st, events, crowd, objs, i, t) ==
    IF i > Len(objs) THEN st
    ELSE AnomalyUpdateAll(AnomalyUpdateObject(st, events, crowd, objs[i], t),
                          events, crowd, objs, i + 1, t)

\* update, lines 316-331: the crowd baseline and _check_crowd_surge
CheckCrowdSurge(st, events, t) ==
    LET current_avg == RatMean(st.frame_velocities)
        velocities ==
            LastN(Append(st.velocity_history, current_avg),
                  VelocityHistoryMaxLen)
        historical_avg == RatMean(LastN(velocities, 50))
        st1 == [st EXCEPT !.crowd = current_avg,
                          !.velocity_history = velocities]
        recent_surge ==
            {i \in DOMAIN events :
                /\ events[i].event_type = "crowd_surge"
                /\ t - events[i].timestamp < SurgeQuietSeconds}
    IN IF st.frame_velocities = <<>> THEN st
       ELSE IF /\ RatLess(RatZero, historical_avg)
               /\ RatLess(RatScale(historical_avg, 5, 2), current_avg)
            THEN IF recent_surge = {}
                 THEN Flag(st1, AnomalyEvent(
                          st1, "crowd_surge", t, <<500, 500>>, None,
                          RatMin(RatDiv(current_avg,
                                        RatScale(historical_avg, 3, 1)),
                                 RatOne),
                          "high"))
                 ELSE [st1 EXCEPT !.counter = @ + 1]
            ELSE st1

\* update, lines 333-345: the anomalies of the call are appended to the log
\* and the log is cut to its last 500 events
AnomalyLogged(det, st) ==
    [hist |-> st.hist,
     events |-> LastN(det.events \o st.new, AnomalyEventsMaxLen),
     counter |-> st.counter,
     crowd |-> st.crowd,
     velocity_history |-> st.velocity_history,
     new |-> st.new]

\* AnomalyDetector.update, as a function of the detector's state
AnomalyUpdate(det, tracked_objects, t) ==
    LET st0 == [hist |-> det.hist, counter |-> det.counter, new |-> <<>>,
                frame_velocities |-> <<>>, crowd |-> det.crowd,
                velocity_history |-> det.velocity_history]
        st1 == AnomalyUpdateAll(st0, det.events, det.crowd, tracked_objects,
                                1, t)
    IN AnomalyLogged(det, CheckCrowdSurge(st1, det.events, t))

AnomalyState ==
    [hist |-> track_history, events |-> anomaly_events,
     counter |-> event_counter, crowd |-> average_crowd_velocity,
     velocity_history |-> velocity_history, new |-> new_anomalies]

\* A detector just constructed
NewDetector ==
    [hist |-> EmptyMap, events |-> <<>>, counter |-> 0, crowd |-> RatZero,
     velocity_history |-> <<>>, new |-> <<>>]

\* AnomalyDetector.update; one call per tick of the session
anomaly_update(tracked_objects) ==
    /\ now < MaxAnomalyTicks * TickInterval
    /\ now' = now + TickInterval
    /\ \E det \in {AnomalyUpdate(AnomalyState, tracked_objects, now')} :
          /\ track_history' = det.hist
          /\ anomaly_events' = det.events
          /\ event_counter' = det.counter
          /\ average_crowd_velocity' = det.crowd
          /\ velocity_history' = det.velocity_history
          /\ new_anomalies' = det.new
    /\ call' = [op |-> "anomaly_update", objs |-> tracked_objects]
    /\ UNCHANGED notAnomalyVars

\* AnomalyDetector.reset
anomaly_reset ==
    /\ track_history' = EmptyMap
    /\ anomaly_events' = <<>>
    /\ velocity_history' = <<>>
    /\ average_crowd_velocity' = RatZero
    /\ call' = [op |-> "anomaly_reset", raised |-> FALSE,
                repeated |-> call.op = "anomaly_reset"]
    /\ UNCHANGED <<now, event_counter, new_anomalies, notAnomalyVars>>

\* The detector after it has processed snapshots lo..hi, by halves
RECURSIVE AnomalyAfter(_, _, _, _)
AnomalyAfter(det, snapshots, lo, hi) ==
    IF lo > hi \/ det.counter < 0 THEN det
    ELSE IF lo = hi
    THEN AnomalyUpdate(det, snapshots[lo], TimeOf(lo, Len(snapshots)))
    ELSE AnomalyAfter(AnomalyAfter(det, snapshots, lo, (lo + hi) \div 2),
                      snapshots, (lo + hi) \div 2 + 1, hi)

InitAnomalyAs(det) ==
    /\ track_history = det.hist
    /\ anomaly_events = det.events
    /\ event_counter = det.counter
    /\ average_crowd_velocity = det.crowd
    /\ velocity_history = det.velocity_history
    /\ new_anomalies = det.new

InitAnomaly == InitAnomalyAs(NewDetector)

Init ==
    /\ now = 0
    /\ call = [op |-> "init"]
    /\ InitAlert
    /\ InitGate
    /\ InitDwell
    /\ InitSession
    /\ InitConfig
    /\ InitFlow
    /\ InitAnomaly

\* The setters of thresholds and configuration
NextConfig ==
    \/ \E k \in ConfigKeyInputs, v \in ConfigValueInputs : set_threshold(k, v)
    \/ \E rate \in ServiceRateInputs : set_service_rate(rate)
    \/ \E area_sqm \in ZoneAreaInputs : set_zone_area(area_sqm)

SpecConfig == Init /\ [][NextConfig]_vars

NextAlert ==
    \/ \E m \in MetricsInputs, zone \in AlertZones : check_metrics(m, zone)
    \/ \E id \in 1..MaxAlerts : acknowledge_alert(id)
    \/ \E id \in 1..MaxAlerts : resolve_alert(id)
    \/ clear_resolved
    \/ \E k \in ThresholdKeyInputs, v \in ThresholdValueInputs : set_threshold(k, v)

SpecAlert == Init /\ [][NextAlert]_vars

\* The anomaly detector.  A detection carries its bounding box; a person
\* upright has the box 24 x 20 (aspect ratio 1.2), a person on the ground
\* the box 16 x 8 (aspect ratio 2.0).
Detection(id, p, box) ==
    [id |-> id, x |-> p[1], y |-> p[2], width |-> box[1], height |-> box[2]]

UprightBox == <<24, 20>>
FallenBox == <<16, 8>>

StandingDetections ==
    {Detection("t1", <<50, 50>>, UprightBox),
     Detection("t1", <<50, 50>>, FallenBox)}

WalkingDetections ==
    {Detection("t2", <<30, 50>>, UprightBox),
     Detection("t2", <<32, 50>>, UprightBox)}

AnomalySnapshots ==
    {<<>>} \cup {<<o>> : o \in StandingDetections \cup WalkingDetections}
           \cup {<<o1, o2>> : o1 \in StandingDetections,
                              o2 \in WalkingDetections}

\* n snapshots of t1 standing upright while t2 walks to and fro
StandAndWalk(n) ==
    [i \in 1..n |->
        <<Detection("t1", <<50, 50>>, UprightBox),
          Detection("t2", IF i % 2 = 1 THEN <<30, 50>> ELSE <<32, 50>>,
                    UprightBox)>>]

\* The detector starts new, or has watched the two tracks for 10 or for 29
\* ticks: the state its updates on those snapshots have produced
WatchedFor10 == AnomalyAfter(NewDetector, StandAndWalk(10), 1, 10)
WatchedFor29 == AnomalyAfter(NewDetector, StandAndWalk(29), 1, 29)

InitWatched ==
    /\ now = 0
    /\ call = [op |-> "init"]
    /\ InitAlert
    /\ InitGate
    /\ InitDwell
    /\ InitSession
    /\ InitConfig
    /\ InitFlow
    /\ \E det \in {NewDetector, WatchedFor10, WatchedFor29} :
          InitAnomalyAs(det)

NextAnomaly ==
    \/ \E s \in AnomalySnapshots : anomaly_update(s)
    \/ anomaly_reset

SpecAnomaly == InitWatched /\ [][NextAnomaly]_vars

\* The four analyzers of one session and their resets; every update is one
\* tick of the session's clock
ResetSnapshots ==
    [gate |-> {Snapshot(p1, Absent) : p1 \in {<<50, 30>>, <<50, 70>>}},
     flow |-> {Snapshot(p1, Absent) : p1 \in {<<50, 50>>, <<52, 50>>}},
     dwell |-> {<<TrackedObject("T001", p)>> : p \in {<<50, 30>>, <<95, 10>>}},
     anomaly |-> {<<o>> : o \in StandingDetections}]

NextReset ==
    \/ \E objs \in ResetSnapshots.gate : gate_update(objs)
    \/ \E objs \in ResetSnapshots.flow : flow_update(objs)
    \/ \E objs \in ResetSnapshots.dwell : dwell_update(objs)
    \/ \E objs \in ResetSnapshots.anomaly : anomaly_update(objs)
    \/ \E g \in GateResetInputs : gate_reset(g)
    \/ flow_reset
    \/ \E z \in DwellResetInputs : dwell_reset(z)
    \/ anomaly_reset

SpecReset == Init /\ [][NextReset]_vars

\* A session that has been running for a long time: every analyzer has
\* processed one snapshot per tick, the last of them at time 0, and the
\* alert manager one metrics report every 30 seconds, the last at time 0.
RECURSIVE GateAfter(_, _, _, _)
GateAfter(st, snapshots, lo, hi) ==
    IF lo > hi \/ Len(st.crossings) < 0 THEN st
    ELSE IF lo = hi
    THEN GateUpdateAll([st EXCEPT !.new = <<>>], DefaultGates, snapshots[lo],
                       1, TimeOf(lo, Len(snapshots)))
    ELSE GateAfter(GateAfter(st, snapshots, lo, (lo + hi) \div 2),
                   snapshots, (lo + hi) \div 2 + 1, hi)

RECURSIVE DwellAfter(_, _, _, _)
DwellAfter(st, snapshots, lo, hi) ==
    IF lo > hi \/ Len(st.recs) < 0 THEN st
    ELSE IF lo = hi
    THEN DwellUpdateResult(st, snapshots[lo], TimeOf(lo, Len(snapshots)))
    ELSE DwellAfter(DwellAfter(st, snapshots, lo, (lo + hi) \div 2),
                    snapshots, (lo + hi) \div 2 + 1, hi)

ReportInterval == 30

RECURSIVE AlertsAfter(_, _, _, _)
AlertsAfter(st, reports, lo, hi) ==
    IF lo > hi \/ Len(st.objs) < 0 THEN st
    ELSE IF lo = hi
    THEN CheckMetricsResult([st EXCEPT !.new = <<>>], DefaultThresholds,
                            reports[lo], "general",
                            (lo - Len(reports)) * ReportInterval)
    ELSE AlertsAfter(AlertsAfter(st, reports, lo, (lo + hi) \div 2),
                     reports, (lo + hi) \div 2 + 1, hi)

NewGateCounter ==
    [pos |-> EmptyMap, crossings |-> <<>>,
     entry |-> [g \in Range(DefaultGates) |-> 0],
     exit |-> [g \in Range(DefaultGates) |-> 0],
     crossed |-> [g \in Range(DefaultGates) |-> {}], new |-> <<>>]

NewDwellAnalyzer ==
    [recs |-> <<>>, active |-> [z \in Range(DwellZones) |-> <<>>],
     completed |-> <<>>, pos |-> EmptyMap]

NewAlertManager ==
    [objs |-> <<>>, active |-> {}, history |-> <<>>, last |-> EmptyMap,
     cond |-> EmptyMap, new |-> <<>>]

\* A box 40 x 4: a person lying across the frame
FlatBox == <<40, 4>>

\* t1 waits in front of the main entrance
WaitAtGate(n) == [i \in 1..n |-> Snapshot(<<50, 30>>, Absent)]

\* t1 and t2 pace to and fro, in opposite directions
PaceToAndFro(n) ==
    [i \in 1..n |-> IF i % 2 = 1 THEN Snapshot(<<50, 50>>, <<52, 50>>)
                    ELSE Snapshot(<<52, 50>>, <<50, 50>>)]

\* T001 steps into the queue area and the entry zone and out again
InAndOut(n) ==
    [i \in 1..n |-> <<TrackedObject("T001", IF i % 2 = 1 THEN <<20, 85>>
                                            ELSE <<95, 10>>)>>]

\* t1 and t2 stand in place and go down and get up in turn
DownAndUp(n) ==
    [i \in 1..n |->
        <<Detection("t1", <<50, 50>>,
                    IF i % 2 = 1 THEN UprightBox ELSE FlatBox),
          Detection("t2", <<30, 50>>,
                    IF i % 2 = 1 THEN FlatBox ELSE UprightBox)>>]

\* The crowd is dense and slow in every other report
DenseAndSlow == [NormalMetrics EXCEPT !.density = 40, !.velocity = 2]
BreachAndRelief(n) ==
    [i \in 1..n |-> IF i % 2 = 1 THEN DenseAndSlow ELSE NormalMetrics]

GateWarmTicks == 30
FlowWarmTicks == 51
DwellWarmTicks == 1001
AnomalyWarmTicks == 510
AlertWarmReports == 1000

\* Every buffer is at its cap: the analyzers and the alert manager are in
\* the states their updates have produced from these snapshots and reports
InitBuffers ==
    /\ now = 0
    /\ call = [op |-> "init"]
    /\ InitSession
    /\ InitConfig
    /\ \E st \in {AlertsAfter(NewAlertManager,
                              BreachAndRelief(AlertWarmReports), 1,
                              AlertWarmReports)} :
          /\ alerts = st.objs
          /\ active_alerts = st.active
          /\ alert_history = st.history
          /\ condition_start_times = st.cond
          /\ last_alert_times = st.last
          /\ new_alerts = st.new
    /\ thresholds = DefaultThresholds
    /\ callbacks = <<>>
    /\ notified = <<>>
    /\ gates = DefaultGates
    /\ \E st \in {GateAfter(NewGateCounter, WaitAtGate(GateWarmTicks), 1,
                            GateWarmTicks)} :
          /\ gate_track_positions = st.pos
          /\ crossings = st.crossings
          /\ entry_count = st.entry
          /\ exit_count = st.exit
          /\ crossed_tracks = st.crossed
          /\ new_crossings = st.new
    /\ \E st \in {DwellAfter(NewDwellAnalyzer, InAndOut(DwellWarmTicks), 1,
                             DwellWarmTicks)} :
          /\ dwell_records = st.recs
          /\ active_dwells = st.active
          /\ completed_dwells = st.completed
          /\ dwell_track_positions = st.pos
    /\ \E fl \in {FlowAfter(NewFlowAnalyzer, PaceToAndFro(FlowWarmTicks), 1,
                            FlowWarmTicks)} :
          InitFlowAs(fl)
    /\ \E det \in {AnomalyAfter(NewDetector, DownAndUp(AnomalyWarmTicks), 1,
                                AnomalyWarmTicks)} :
          InitAnomalyAs(det)

\* get_advanced_analytics of a video with an active stream (routes.py, lines
\* 903-909; the processing loop of websocket.py does the same at lines
\* 151-163): the four analyzers are updated in turn with the detections of
\* the last frame, within one tick.
get_advanced_analytics(detections) ==
    /\ now < MaxFrames * TickInterval
    /\ now' = now + TickInterval
    /\ LET st == GateUpdateAll(GateState, gates, detections, 1, now')
       IN /\ gate_track_positions' = st.pos
          /\ crossings' = st.crossings
          /\ entry_count' = st.entry
          /\ exit_count' = st.exit
          /\ crossed_tracks' = st.crossed
          /\ new_crossings' = st.new
    /\ LET fl == FlowUpdate(FlowState, detections, now')
       IN /\ flow_track_positions' = fl.pos
          /\ flow_history' = fl.history
          /\ counter_flow_events' = fl.events
          /\ dominant_flow' = fl.dominant
          /\ direction_heatmap' = fl.heatmap
          /\ new_counter_flow' = fl.new
    /\ LET st == DwellUpdateResult(DwellState, detections, now')
       IN /\ dwell_records' = st.recs
          /\ active_dwells' = st.active
          /\ completed_dwells' = st.completed
          /\ dwell_track_positions' = st.pos
    /\ \E det \in {AnomalyUpdate(AnomalyState, detections, now')} :
          /\ track_history' = det.hist
          /\ anomaly_events' = det.events
          /\ event_counter' = det.counter
          /\ average_crowd_velocity' = det.crowd
          /\ velocity_history' = det.velocity_history
          /\ new_anomalies' = det.new
    /\ call' = [op |-> "get_advanced_analytics", objs |-> detections]
    /\ UNCHANGED <<gates, angle_threshold, alertVars, callbackVars, sessionVars,
                   configVars>>

\* The frames of the stream show t1 alone: upright where it was, or down
\* two steps to the right
Frames ==
    {<<Detection("t1", <<50, 50>>, UprightBox)>>,
     <<Detection("t1", <<52, 50>>, FlatBox)>>}

NextBuffers ==
    \/ \E detections \in Frames : get_advanced_analytics(detections)
    \/ \E m \in {NormalMetrics, DenseAndSlow} : check_metrics(m, "general")

SpecBuffers == InitBuffers /\ [][NextBuffers]_vars

\* The flow analyzer watching one track, and its angle difference applied to
\* pairs of angles
FlowTrackSnapshots == {Snapshot(p1, Absent) : p1 \in FlowPoints \cup {Absent}}

NextAngle ==
    \/ \E a1 \in AngleInputs, a2 \in AngleInputs :
          flow_angle_difference(a1, a2)
    \/ \E s \in FlowTrackSnapshots : flow_update(s)

SpecAngle == Init /\ [][NextAngle]_vars

\* The alert manager under congestion.  The horizon MaxTime is shorter than
\* the default congestion_duration of 120 seconds plus the first call of a
\* run, so set_threshold brings the duration down to 20 seconds.
CongestionMetricsInputs ==
    {NormalMetrics,
     [NormalMetrics EXCEPT !.congestionStatus = "congested"],
     [NormalMetrics EXCEPT !.congestionStatus = "severe"],
     [NormalMetrics EXCEPT !.congestionStatus = "moderate"]}

NextCongestion ==
    \/ \E m \in CongestionMetricsInputs, zone \in AlertZones :
          check_metrics(m, zone)
    \/ \E v \in ThresholdValueInputs : set_threshold("congestion_duration", v)

SpecCongestion == Init /\ [][NextCongestion]_vars

\* The alert manager with callbacks.  One call of check_metrics can create
\* two alerts (density and velocity breached together).
CallbackMetricsInputs ==
    {NormalMetrics,
     [NormalMetrics EXCEPT !.density = 40],
     [NormalMetrics EXCEPT !.density = 40, !.velocity = 2]}

NextCallbacks ==
    \/ \E callback \in CallbackKinds : register_callback(callback)
    \/ \E m \in CallbackMetricsInputs : check_metrics(m, "general")

SpecCallbacks == Init /\ [][NextCallbacks]_vars

NextGate ==
    \/ \E objs \in GateSnapshots : gate_update(objs)
    \/ \E g \in GateResetInputs : gate_reset(g)

SpecGate == Init /\ [][NextGate]_vars

\* The direction of a crossing, for movements down, up and along a gate,
\* in every state the counter can be in
DirectionPoints == {<<50, 30>>, <<50, 50>>, <<70, 50>>}
DirectionSnapshots == {Snapshot(p1, Absent) : p1 \in GatePoints1}

NextDirection ==
    \/ \E objs \in DirectionSnapshots : gate_update(objs)
    \/ \E prev_pos \in DirectionPoints, curr_pos \in DirectionPoints,
          g \in Range(DefaultGates) :
          gate_get_crossing_direction(prev_pos, curr_pos, g)

SpecDirection == Init /\ [][NextDirection]_vars

\* The gate counter of a video behind the REST endpoints
RecentLimits == {1, 10}

NextGateQuery ==
    \/ gate_get_gate_stats
    \/ \E g \in Range(DefaultGates) : gate_get_flow_rate(g)
    \/ \E limit \in RecentLimits : gate_get_recent_crossings(limit)
    \/ \E active \in BOOLEAN, objs \in GateSnapshots :
          rest_get_gate_stats(active, objs)
    \/ \E g \in Range(DefaultGates) : rest_get_gate_flow_rate(g)

SpecGateQuery == Init /\ [][NextGateQuery]_vars

NextDwell ==
    \/ \E objs \in DwellSnapshots : dwell_update(objs)
    \/ \E z \in DwellResetInputs : dwell_reset(z)

SpecDwell == Init /\ [][NextDwell]_vars

NextTick == \E detections \in DwellSnapshots : process_tick(detections)

SpecTick == Init /\ [][NextTick]_vars

NextSession ==
    \/ \E ws \in Sockets, v \in Videos : ws_connect(ws, v)
    \/ \E ws \in Sockets : client_drop(ws)
    \/ \E ws \in Sockets : client_stall(ws)
    \/ \E ws \in Sockets : ws_disconnect(ws)
    \/ \E k \in TaskIds : loop_cancelled(k)
    \/ \E k \in TaskIds, outcome \in OpenOutcomes : loop_start(k, outcome)
    \/ \E k \in TaskIds : loop_check(k)
    \/ \E k \in TaskIds, ret \in BOOLEAN : loop_read(k, ret)
    \/ \E k \in TaskIds, detections \in BOOLEAN : loop_process(k, detections)
    \/ \E k \in TaskIds, raises \in BOOLEAN : analyzer_update(k, raises)
    \/ \E k \in TaskIds : broadcast_begin(k)
    \/ \E k \in TaskIds : broadcast_next(k)
    \/ \E k \in TaskIds, delivered \in BOOLEAN : send_done(k, delivered)
    \/ \E k \in TaskIds : broadcast_cleanup(k)
    \/ \E k \in TaskIds : loop_wake(k)
    \/ \E k \in TaskIds : loop_finally(k)

SpecSession == Init /\ [][NextSession]_vars

\* The manager with the sessions of two videos, a source that opens and
\* delivers frames, analyzers that do not raise and clients that read
OtherVideos == {"cam2"}
AllVideos == Videos \cup OtherVideos

RECURSIVE TicksOf(_, _)
TicksOf(objs, k) ==
    IF k = 0 THEN 0 ELSE objs[k].ticks + TicksOf(objs, k - 1)

\* The ticks the tasks that have not ended have begun, all videos together
TotalTicks == TicksOf(task_objs, Len(task_objs))

\* The video a client asks for: the clients take the two videos in turn
VideoOf(ws) == IF ws % 2 = 1 THEN "cam1" ELSE "cam2"

NextSessions ==
    \/ \E ws \in Sockets : ws_connect(ws, VideoOf(ws))
    \/ \E ws \in Sockets : client_drop(ws)
    \/ \E ws \in Sockets : ws_disconnect(ws)
    \/ \E k \in TaskIds : loop_cancelled(k)
    \/ \E k \in TaskIds : loop_start(k, "opened")
    \/ \E k \in TaskIds : loop_check(k)
    \/ \E k \in TaskIds : TotalTicks < MaxTicks /\ loop_read(k, TRUE)
    \/ \E k \in TaskIds, detections \in BOOLEAN : loop_process(k, detections)
    \/ \E k \in TaskIds : analyzer_update(k, FALSE)
    \/ \E k \in TaskIds : broadcast_begin(k)
    \/ \E k \in TaskIds : broadcast_next(k)
    \/ \E k \in TaskIds, delivered \in BOOLEAN : send_done(k, delivered)
    \/ \E k \in TaskIds : broadcast_cleanup(k)
    \/ \E k \in TaskIds : loop_wake(k)
    \/ \E k \in TaskIds : loop_finally(k)

SpecSessions == Init /\ [][NextSessions]_vars

\* The steps of the processing tasks: the event loop runs every coroutine
\* that is ready, a sleep returns, and a send returns unless the client has
\* stopped reading.  Clients and endpoint handlers are under no obligation.
LoopStep ==
    \E k \in TaskIds :
        \/ loop_cancelled(k)
        \/ \E outcome \in OpenOutcomes : loop_start(k, outcome)
        \/ loop_check(k)
        \/ \E ret \in BOOLEAN : loop_read(k, ret)
        \/ \E detections \in BOOLEAN : loop_process(k, detections)
        \/ \E raises \in BOOLEAN : analyzer_update(k, raises)
        \/ broadcast_begin(k)
        \/ broadcast_next(k)
        \/ \E delivered \in BOOLEAN : send_done(k, delivered)
        \/ broadcast_cleanup(k)
        \/ loop_wake(k)
        \/ loop_finally(k)

SpecSessionFair == SpecSession /\ WF_vars(LoopStep)


(***************************************************************************)
(* Claims about the AlertManager                                           *)
(***************************************************************************)
\* The alert types whose creation check_metrics requests for metrics m under
\* thresholds thr, whatever the state (congestion, which is gated on its
\* duration, left aside).
BreachedTypes(m, thr) ==
    (IF m.density >= thr.density_critical THEN {"critical_density"}
     ELSE IF m.density >= thr.density_warning THEN {"high_density"} ELSE {})
    \cup (IF m.velocity <= thr.velocity_warning \/ m.velocity <= thr.velocity_critical
          THEN {"low_velocity"} ELSE {})
    \cup (IF m.waitTimeMinutes >= thr.queue_long \/ m.waitTimeMinutes >= thr.queue_very_long
          THEN {"long_queue"} ELSE {})

\* C1: for every (type, zone) pair at most one alert held in active_alerts is
\* unresolved, in every reachable state of the manager.
C1_OneUnresolvedPerTypeZone ==
    \A a \in active_alerts, b \in active_alerts :
        (/\ ~alerts[a].resolved
         /\ ~alerts[b].resolved
         /\ alerts[a].type = alerts[b].type
         /\ alerts[a].zone = alerts[b].zone) => a = b

\* C1 witness: active_alerts holds two alerts of one (type, zone) pair, the
\* older resolved and the newer unresolved.
C1_Witness ==
    \E a \in active_alerts, b \in active_alerts :
        /\ a < b
        /\ alerts[a].type = alerts[b].type
        /\ alerts[a].zone = alerts[b].zone
        /\ alerts[a].resolved
        /\ ~alerts[b].resolved

\* C7: no alert of a (type, zone) pair is created less than cooldown_seconds
\* after the creation of an alert of that pair: any two alerts ever created
\* for one pair are at least cooldown_seconds apart, resolved or not.
C7_OneAlertPerCooldownWindow ==
    \A a \in DOMAIN alerts, b \in DOMAIN alerts :
        (/\ a < b
         /\ alerts[a].type = alerts[b].type
         /\ alerts[a].zone = alerts[b].zone)
        => alerts[b].timestamp - alerts[a].timestamp >= cooldown_seconds

\* C7 witness: the last call was a check_metrics that saw a breach of a type
\* whose alert for the zone had been created less than cooldown_seconds
\* earlier and resolved since; the call created no alert of that type.
C7_Witness ==
    /\ call.op = "check_metrics"
    /\ \E ty \in BreachedTypes(call.metrics, thresholds) :
          /\ \E a \in DOMAIN alerts :
                /\ alerts[a].type = ty
                /\ alerts[a].zone = call.zone
                /\ alerts[a].resolved
                /\ alerts[a].timestamp < now
                /\ now - alerts[a].timestamp < cooldown_seconds
          /\ \A id \in Range(new_alerts) : alerts[id].type # ty

\* C8 as stated: a breach of a (type, zone) signal seen by check_metrics once
\* the cooldown of the pair has expired produces a new alert.
C8_BreachAfterCooldownCreates ==
    [][call'.op = "check_metrics" =>
        \A ty \in BreachedTypes(call'.metrics, thresholds) :
            ~InCooldown(last_alert_times, ty, call'.zone, now')
            => \E id \in Range(new_alerts') :
                   /\ alerts'[id].type = ty
                   /\ alerts'[id].zone = call'.zone]_vars

\* C8 amended: a breach of a (type, zone) signal seen by check_metrics once
\* the cooldown of the pair has expired, while active_alerts holds no
\* unresolved alert of the pair, produces a new alert.
C8_BreachAfterCooldownCreatesUnlessActive ==
    [][call'.op = "check_metrics" =>
        \A ty \in BreachedTypes(call'.metrics, thresholds) :
            (/\ ~InCooldown(last_alert_times, ty, call'.zone, now')
             /\ ~HasUnresolved(alerts, active_alerts, ty, call'.zone))
            => \E id \in Range(new_alerts') :
                   /\ alerts'[id].type = ty
                   /\ alerts'[id].zone = call'.zone
                   /\ alerts'[id].timestamp = now'
                   /\ ~alerts'[id].resolved
                   /\ id \in active_alerts']_vars

\* C8 witness: the last check_metrics created an alert of a pair that already
\* had an alert, created at least cooldown_seconds earlier.
C8_Witness ==
    /\ call.op = "check_metrics"
    /\ \E id \in Range(new_alerts), a \in DOMAIN alerts :
          /\ alerts[a].type = alerts[id].type
          /\ alerts[a].zone = alerts[id].zone
          /\ alerts[id].zone = call.zone
          /\ now - alerts[a].timestamp >= cooldown_seconds

\* C9: (1) with no alert ever created for the zone, a check_metrics call with
\* density at or above the critical threshold and the other signals normal
\* returns exactly one alert, critical_density / CRITICAL, which is active;
\* (2) a check_metrics call for a zone with density below the density
\* thresholds leaves every critical_density alert of the zone resolved and
\* out of get_active_alerts.
C9_CriticalDensityScenario ==
    [][call'.op = "check_metrics" =>
        LET m == call'.metrics
            zone == call'.zone
        IN /\ (/\ m.density >= thresholds.density_critical
               /\ m.velocity > thresholds.velocity_warning
               /\ m.velocity > thresholds.velocity_critical
               /\ m.congestionStatus = "free"
               /\ m.waitTimeMinutes < thresholds.queue_long
               /\ m.waitTimeMinutes < thresholds.queue_very_long
               /\ \A a \in DOMAIN alerts : alerts[a].zone # zone)
              => /\ Len(new_alerts') = 1
                 /\ alerts'[new_alerts'[1]].type = "critical_density"
                 /\ alerts'[new_alerts'[1]].level = "critical"
                 /\ alerts'[new_alerts'[1]].zone = zone
                 /\ new_alerts'[1] \in {id \in active_alerts' : ~alerts'[id].resolved}
           /\ (/\ m.density < thresholds.density_warning
               /\ m.density < thresholds.density_critical)
              => \A id \in active_alerts :
                     (alerts[id].type = "critical_density" /\ alerts[id].zone = zone)
                     => /\ alerts'[id].resolved
                        /\ id \notin {i \in active_alerts' : ~alerts'[i].resolved}]_vars

\* C9 witness: the zone's only alert is a critical_density alert, and the
\* last call, a check_metrics with density below the thresholds for that
\* zone, left it resolved.
C9_Witness ==
    /\ call.op = "check_metrics"
    /\ call.metrics.density < thresholds.density_warning
    /\ new_alerts = <<>>
    /\ \E id \in active_alerts :
          /\ alerts[id].type = "critical_density"
          /\ alerts[id].level = "critical"
          /\ alerts[id].zone = call.zone
          /\ alerts[id].resolved
          /\ id \notin GetActiveAlerts
          /\ \A a \in DOMAIN alerts : alerts[a].zone = call.zone => a = id

(***************************************************************************)
(* Claims about the BiDirectionalGateCounter                               *)
(***************************************************************************)
\* The crossing-log entries of track t at gate g
CrossingsOf(t, g) ==
    {i \in DOMAIN crossings :
        crossings[i].track_id = t /\ crossings[i].gate_id = g}

\* The steps k -> k+1 of the stored trajectory of t that intersect gate g
CrossingSteps(t, g) ==
    LET traj == GetList(gate_track_positions, t)
    IN {k \in 1..(Len(traj) - 1) :
           LinesIntersect(<<traj[k][1], traj[k][2]>>,
                          <<traj[k + 1][1], traj[k + 1][2]>>,
                          GateStart(g), GateEnd(g))}

\* C2: since the last reset covering gate g (which empties g's part of the
\* log) at most one crossing is recorded for every (track, gate) pair, and
\* entry_count[g] + exit_count[g] is at most the number of tracks with a
\* recorded crossing of g.
C2_CountedAtMostOncePerTrackAndGate ==
    \A g \in Range(gates) :
        /\ \A t \in Tracks : Cardinality(CrossingsOf(t, g)) <= 1
        /\ entry_count[g] + exit_count[g]
               <= Cardinality({t \in Tracks : CrossingsOf(t, g) # {}})

\* C2 witness: the stored path of a track crosses a gate on two steps, back
\* and forth; the first of them is the one recorded and the count is 1.
C2_Witness ==
    \E t \in Tracks, g \in Range(gates) :
        /\ Cardinality(CrossingSteps(t, g)) >= 2
        /\ Cardinality(CrossingsOf(t, g)) = 1
        /\ entry_count[g] + exit_count[g] = 1
        /\ \E i \in CrossingsOf(t, g), k \in CrossingSteps(t, g) :
              /\ \A j \in CrossingSteps(t, g) : k <= j
              /\ crossings[i].timestamp = gate_track_positions[t][k + 1][3]

\* The side of the line of gate g the point p lies on: 1, -1, or 0 on the line
SideOfGate(p, g) ==
    LET d == CrossProductSign(GateStart(g), GateEnd(g), p)
    IN IF d > 0 THEN 1 ELSE IF d < 0 THEN -1 ELSE 0

\* p lies on the segment of gate g, strictly between its end points
StrictlyInsideGate(p, g) ==
    LET a == GateStart(g)
        b == GateEnd(g)
        along == (p[1] - a[1]) * (b[1] - a[1]) + (p[2] - a[2]) * (b[2] - a[2])
        len2 == (b[1] - a[1]) * (b[1] - a[1]) + (b[2] - a[2]) * (b[2] - a[2])
    IN SideOfGate(p, g) = 0 /\ along > 0 /\ along < len2

\* The end points of gate g lie strictly on opposite sides of the line q - p
GateStraddles(q, p, g) ==
    LET d3 == CrossProductSign(q, p, GateStart(g))
        d4 == CrossProductSign(q, p, GateEnd(g))
    IN (d3 > 0 /\ d4 < 0) \/ (d3 < 0 /\ d4 > 0)

\* The stored path traj followed by the position p passes from one side of
\* the segment of gate g to the other exactly once, and does so on reaching
\* p: every stored position is on the side opposite to p or on the gate
\* itself, one at least is on the opposite side, and the path meets the
\* line inside the gate.
CompletesSinglePass(traj, p, g) ==
    /\ SideOfGate(p, g) # 0
    /\ \E k \in DOMAIN traj : SideOfGate(<<traj[k][1], traj[k][2]>>, g) = -SideOfGate(p, g)
    /\ \A k \in DOMAIN traj :
          LET q == <<traj[k][1], traj[k][2]>>
          IN \/ SideOfGate(q, g) = -SideOfGate(p, g) /\ GateStraddles(q, p, g)
             \/ StrictlyInsideGate(q, g)

\* C3 as stated: an update that completes the single pass of a track over a
\* gate, a pass through a position exactly on the gate line included, leaves
\* that track counted exactly once for the gate.
C3_SinglePassCountedOnce ==
    [][call'.op = "gate_update" =>
        \A i \in DOMAIN call'.objs, g \in Range(gates) :
            LET obj == call'.objs[i]
            IN CompletesSinglePass(GetList(gate_track_positions, obj.id),
                                   Normalize(obj.x, obj.y), g)
               => /\ obj.id \in crossed_tracks'[g]
                  /\ Cardinality({j \in DOMAIN crossings' :
                         /\ crossings'[j].track_id = obj.id
                         /\ crossings'[j].gate_id = g}) = 1
                  /\ entry_count'[g] + exit_count'[g]
                         >= entry_count[g] + exit_count[g] + 1]_vars

\* The same statement for the passes that have no position on the gate line
C3_DirectPassCountedOnce ==
    [][call'.op = "gate_update" =>
        \A i \in DOMAIN call'.objs, g \in Range(gates) :
            LET obj == call'.objs[i]
                traj == GetList(gate_track_positions, obj.id)
            IN (/\ CompletesSinglePass(traj, Normalize(obj.x, obj.y), g)
                /\ \A k \in DOMAIN traj : SideOfGate(<<traj[k][1], traj[k][2]>>, g) # 0
                /\ obj.id \notin crossed_tracks[g])
               => /\ obj.id \in crossed_tracks'[g]
                  /\ Cardinality({j \in DOMAIN crossings' :
                         /\ crossings'[j].track_id = obj.id
                         /\ crossings'[j].gate_id = g}) = 1]_vars

(***************************************************************************)
(* Claims about the DwellTimeAnalyzer                                      *)
(***************************************************************************)
\* The records the items of the active map of zone_id refer to
ActiveRecordsOf(zone_id) ==
    {active_dwells[zone_id][i].rec : i \in DOMAIN active_dwells[zone_id]}

ActiveTrackIdsOf(zone_id) ==
    {active_dwells[zone_id][i].track_id : i \in DOMAIN active_dwells[zone_id]}

\* C4: after update(S), the active set of every zone is exactly the set of
\* the tracks of S whose position (the one the analyzer keeps for the track)
\* is inside the zone, so it holds no track that is absent from S; and every
\* record that was open for a track absent from S has been closed
\* (is_active false, exit_time set to the tick's time) and is in the
\* completed log.
C4_VanishedTracksAreExited ==
    [][call'.op = "dwell_update" =>
        \A z \in Range(DwellZones) :
            /\ ActiveTrackIdsOf(z)' \subseteq TrackIds(call'.objs)
            /\ ActiveTrackIdsOf(z)' =
                  {t \in TrackIds(call'.objs) :
                      PointInPolygon(dwell_track_positions'[t][1],
                                     dwell_track_positions'[t][2],
                                     ZonePolygon(z))}
            /\ \A i \in DOMAIN active_dwells[z] :
                  LET it == active_dwells[z][i]
                  IN it.track_id \notin TrackIds(call'.objs)
                     => /\ dwell_records'[it.rec].is_active = FALSE
                        /\ dwell_records'[it.rec].exit_time = now'
                        /\ it.rec \in Range(completed_dwells')]_vars

\* C4 witness: the update just made closed the record of a track that is not
\* in its snapshot, while another track is still inside a zone.
C4_Witness ==
    /\ call.op = "dwell_update"
    /\ \E r \in Range(completed_dwells) :
          /\ dwell_records[r].track_id \notin TrackIds(call.objs)
          /\ dwell_records[r].exit_time = now
          /\ dwell_records[r].entry_time < now
    /\ \E z \in Range(DwellZones) : active_dwells[z] # <<>>

\* C5: a record that a step closes is closed by update, with exit_time the
\* time of that tick and dwell_seconds = exit_time - entry_time >= 0; a
\* record that is closed already is left as it is by every step.
C5_DwellIsExitMinusEntry ==
    [][\A r \in DOMAIN dwell_records' :
          ~dwell_records'[r].is_active =>
              IF r \in DOMAIN dwell_records /\ ~dwell_records[r].is_active
              THEN dwell_records'[r] = dwell_records[r]
              ELSE /\ call'.op = "dwell_update"
                   /\ dwell_records'[r].exit_time = now'
                   /\ dwell_records'[r].dwell_seconds =
                          dwell_records'[r].exit_time
                              - dwell_records'[r].entry_time
                   /\ dwell_records'[r].dwell_seconds >= 0]_vars

\* C5 witness: the completed log holds a record closed by a zone exit and a
\* record closed by the disappearance of its track, both of positive length.
C5_Witness ==
    /\ call.op = "dwell_update"
    /\ \E r1, r2 \in Range(completed_dwells) :
          /\ dwell_records[r1].track_id \in TrackIds(call.objs)
          /\ dwell_records[r1].exit_time = now
          /\ dwell_records[r1].dwell_seconds > 0
          /\ dwell_records[r2].track_id \notin TrackIds(call.objs)
          /\ dwell_records[r2].exit_time = now
          /\ dwell_records[r2].dwell_seconds > 0

\* The records the analyzer holds: those of the active maps and of the log
HeldRecords ==
    Range(completed_dwells)
        \cup UNION {ActiveRecordsOf(z) : z \in DOMAIN active_dwells}

\* C6: among the records the analyzer holds, at most one per (track, zone)
\* is active, and it is held in the active map of its zone only, once, under
\* its track id; no record of the completed log is active or is in an active
\* map; every record of an active map is active and has no exit_time.
C6_ActiveInOnePlace ==
    /\ \A r1, r2 \in HeldRecords :
          (/\ dwell_records[r1].is_active /\ dwell_records[r2].is_active
           /\ dwell_records[r1].track_id = dwell_records[r2].track_id
           /\ dwell_records[r1].zone_id = dwell_records[r2].zone_id)
          => r1 = r2
    /\ \A r \in HeldRecords :
          dwell_records[r].is_active =>
              /\ r \notin Range(completed_dwells)
              /\ \A z \in DOMAIN active_dwells :
                    LET places == {i \in DOMAIN active_dwells[z] :
                                      active_dwells[z][i].rec = r}
                    IN IF z = dwell_records[r].zone_id
                       THEN /\ Cardinality(places) = 1
                            /\ \A i \in places :
                                  active_dwells[z][i].track_id =
                                      dwell_records[r].track_id
                       ELSE places = {}
    /\ \A i \in DOMAIN completed_dwells :
          /\ ~dwell_records[completed_dwells[i]].is_active
          /\ \A z \in DOMAIN active_dwells :
                completed_dwells[i] \notin ActiveRecordsOf(z)
    /\ \A z \in DOMAIN active_dwells :
          /\ \A r \in ActiveRecordsOf(z) :
                /\ dwell_records[r].is_active
                /\ dwell_records[r].exit_time = None
          /\ Cardinality(ActiveTrackIdsOf(z)) = Len(active_dwells[z])

\* C6 witness: a track is active in two zones at once, and the completed
\* log holds an earlier stay of that track in one of these zones.
C6_Witness ==
    \E z1, z2 \in Range(DwellZones), t \in DwellTracks :
        /\ z1 # z2
        /\ t \in ActiveTrackIdsOf(z1) /\ t \in ActiveTrackIdsOf(z2)
        /\ \E r \in Range(completed_dwells) :
              /\ dwell_records[r].track_id = t
              /\ dwell_records[r].zone_id = z1

(***************************************************************************)
(* Claims about the ConnectionManager                                      *)
(***************************************************************************)
\* Task k can still execute a tick: it has not ended, is not cancelled, is
\* not on its way out of the loop, and the while condition holds for it
\* (or will be evaluated for the first time)
LoopCanTick(k) ==
    LET t == task_objs[k]
    IN /\ t.pc \notin {"done", "finally"}
       /\ ~t.cancel_requested
       /\ t.after # "finally"
       /\ t.ticks < MaxTicks
       /\ t.video \in DOMAIN active_connections
       /\ t.pc = "created" \/ processor_objs[t.processor].is_processing

\* C10 as stated: whenever the processing loop of a video can still execute
\* a tick, the subscriber set of that video is not empty.
C10_LoopLiveOnlyWithSubscribers ==
    \A k \in DOMAIN task_objs :
        LoopCanTick(k) => Subscribers(task_objs[k].video) # {}

\* The same statement for the sessions none of whose broadcasts dropped a
\* subscriber: there the last subscriber leaves through disconnect only.
C10_HoldsWithoutBroadcastDrop ==
    (\A k \in DOMAIN task_objs : LoopCanTick(k)
         => Subscribers(task_objs[k].video) # {})
    \/ \E ws \in Sockets :
          /\ sockets[ws].state = "open"
          /\ \A v \in Videos : ws \notin Subscribers(v)

\* A tick is executed for a subscriber set that broadcast has emptied
C10_TickWithoutSubscribers ==
    /\ call.op = "loop_tick"
    /\ call.subscribers = {}

\* The task registered for video_id has not ended and has no pending
\* cancellation
LoopLive(video_id) ==
    /\ video_id \in DOMAIN tasks
    /\ task_objs[tasks[video_id]].pc # "done"
    /\ ~task_objs[tasks[video_id]].cancel_requested

\* C11 as stated: when connect has completed for a video, a processing loop
\* of that video is live and has no pending cancellation.
C11_ConnectLeavesLiveLoop ==
    call.op = "ws_connect" => LoopLive(sockets[call.ws].video)

\* The same statement for the connects that find no task, or an ended one,
\* registered for the video: these start a loop.
C11_ConnectStartsLoopWhenNoneRegistered ==
    [][(/\ call'.op = "ws_connect"
        /\ \A v \in DOMAIN tasks : TaskDone(v))
       => LoopLive(sockets[call.ws].video)']_vars

\* A subscriber is attached and nothing is left running for its video: the
\* connect overlapped the disconnect of the previous last subscriber
C11_SubscriberWithoutLoop ==
    /\ call.op = "loop_cancelled"
    /\ running = NoTask
    /\ \E v \in Videos :
          /\ Subscribers(v) # {}
          /\ \A k \in DOMAIN task_objs : task_objs[k].pc = "done"

\* The subscriber set of video_id in the map conns
SubscribersIn(conns, video_id) ==
    IF video_id \in DOMAIN conns THEN conns[video_id] ELSE {}

BlockedOn(k, ws) ==
    /\ k \in DOMAIN task_objs
    /\ task_objs[k].pc = "sending"
    /\ task_objs[k].current = ws
    /\ sockets[ws].stalled

\* C13 as stated: a delivery that is blocked does not block the producer.
\* A task suspended in a send to a client that stopped reading leaves that
\* send: it goes on to the other subscribers and to later ticks.
C13_BlockedSendDoesNotBlockLoop ==
    \A k \in TaskIds, ws \in Sockets :
        BlockedOn(k, ws) ~> ~BlockedOn(k, ws)

\* A subscriber is still waiting for the message of a broadcast that is
\* suspended in the send to a client that stopped reading
C13_SubscriberWaitsBehindBlockedSend ==
    /\ running = NoTask
    /\ \E k \in DOMAIN task_objs, ws \in Sockets :
          /\ BlockedOn(k, ws)
          /\ task_objs[k].message = "result"
          /\ Subscribers(task_objs[k].video) \ task_objs[k].visited # {}

\* The progress of the sends to clients that read: a task suspended in a
\* send leaves it, unless the client stops reading.
C13_UnblockedSendCompletes ==
    \A k \in TaskIds :
        (k \in DOMAIN task_objs /\ task_objs[k].pc = "sending")
        ~> (/\ k \in DOMAIN task_objs
            /\ \/ task_objs[k].pc # "sending"
               \/ sockets[task_objs[k].current].stalled)

\* C14 as stated: when the update of one analyzer raises, the loop goes on
\* with the analyzers that remain, or with the broadcast of the result of
\* the tick after the last of them; it does not leave the tick.
C14_AnalyzerFaultIsIsolated ==
    [][(call'.op = "analyzer_update" /\ call'.raises) =>
          LET u == task_objs'[call'.task]
              a == call'.analyzer
          IN /\ ~u.in_handler
             /\ IF IndexOf(a) < Len(AnalyzerOrder)
                THEN u.pc = AnalyzerOrder[IndexOf(a) + 1]
                ELSE u.pc = "broadcast" /\ u.message = "result"
                                       /\ u.after = "sleep_tick"]_vars

\* An update that does not raise is followed by the analyzers that remain
\* and, after the last of them, by the broadcast of the result
C14_FaultFreeTickCompletes ==
    [][(call'.op = "analyzer_update" /\ ~call'.raises) =>
          LET u == task_objs'[call'.task]
              a == call'.analyzer
          IN /\ ~u.in_handler
             /\ IF IndexOf(a) < Len(AnalyzerOrder)
                THEN u.pc = AnalyzerOrder[IndexOf(a) + 1]
                ELSE u.pc = "broadcast" /\ u.message = "result"
                                       /\ u.after = "sleep_tick"]_vars

\* A loop has ended in its finally clause after the flow analyzer raised:
\* the gate analyzer is one snapshot ahead of the others
C14_LoopEndedByAnalyzerFault ==
    \E v \in DOMAIN analyzers :
        /\ v \in DOMAIN tasks
        /\ task_objs[tasks[v]].pc = "done"
        /\ ~task_objs[tasks[v]].cancel_requested
        /\ analyzer_objs[analyzers[v]].raised = "flow"
        /\ analyzer_objs[analyzers[v]]["gate"]
              > analyzer_objs[analyzers[v]]["dwell"]

\* The task is on its way to broadcast an error message and to end after it
ReportsAndStops(t) ==
    /\ t.pc = "broadcast"
    /\ t.message = "error"
    /\ t.after = "finally"

\* C15 as stated: when the video cannot be opened, or a read returns no
\* frame, the loop goes on to broadcast one error message and ends; it
\* neither ticks nor reads again.
C15_UpstreamFailureIsTerminal ==
    [][(\/ call'.op = "loop_start" /\ call'.outcome # "opened"
        \/ call'.op = "loop_read" /\ ~call'.ret) =>
          ReportsAndStops(task_objs'[call'.task])]_vars

\* The half of C15 the code keeps: a video that cannot be opened is
\* reported with one error message, after which the task ends
C15_OpenFailureIsTerminal ==
    [][(call'.op = "loop_start" /\ call'.outcome # "opened") =>
          ReportsAndStops(task_objs'[call'.task])]_vars

\* A read has returned no frame and the loop is back at its while
\* statement, nothing reported
C15_ReadsAgainAfterNoFrame ==
    /\ call.op = "loop_read"
    /\ ~call.ret
    /\ task_objs[call.task].pc = "top"
    /\ task_objs[call.task].message = None

\* No task of the video holds the event loop: each of them is suspended at
\* an await, cancelled, or has ended
NoLoopRunning(video_id) ==
    running = NoTask \/ task_objs[running].video # video_id

C16_StoppedAfterTick ==
    \E v \in DOMAIN analyzers :
        /\ v \in DOMAIN tasks
        /\ task_objs[tasks[v]].pc = "done"
        /\ analyzer_objs[analyzers[v]].raised = NoFault
        /\ analyzer_objs[analyzers[v]]["anomaly"] > 0

\* The records that are open for tracks which are not in a snapshot
OpenForAbsent(tracked_objects) ==
    UNION {{active_dwells[z][i].rec : i \in
               {j \in DOMAIN active_dwells[z] :
                   active_dwells[z][j].track_id \notin TrackIds(tracked_objects)}}
           : z \in Range(DwellZones)}

\* A tick closed the record: not active, exit at the time of the tick, in
\* the completed log and in no active set
ClosedByTick(r) ==
    /\ dwell_records'[r].is_active = FALSE
    /\ dwell_records'[r].exit_time = now'
    /\ r \in Range(completed_dwells')
    /\ \A z \in Range(DwellZones) : r \notin ActiveRecordsOf(z)'

\* C17 as stated: every tick of a running session closes every open dwell
\* record whose track is not in its snapshot, the tick without any
\* detection included.
C17_EveryTickClosesAbsentTracks ==
    [][call'.op = "process_tick" =>
          \A r \in OpenForAbsent(call'.objs) : ClosedByTick(r)]_vars

\* What the code keeps: a tick with at least one detection closes the
\* open records of the tracks that are not in its snapshot
C17_NonEmptyTickClosesAbsentTracks ==
    [][(call'.op = "process_tick" /\ call'.objs # <<>>) =>
          \A r \in OpenForAbsent(call'.objs) : ClosedByTick(r)]_vars

\* A tick without detections has left a dwell record open
C17_OpenAfterEmptyTick ==
    /\ call.op = "process_tick"
    /\ call.objs = <<>>
    /\ \E z \in Range(DwellZones) : active_dwells[z] # <<>>

QueryOps == {"get_gate_stats", "get_flow_rate", "get_recent_crossings",
             "rest_get_gate_stats", "rest_get_gate_flow_rate"}

\* C18 as stated: a query, whether it is a method of the analyzer or a REST
\* query endpoint called while the video has an active stream, leaves the
\* state of the analyzer as it was.
C18_QueriesLeaveStateUnchanged ==
    [][call'.op \in QueryOps => UNCHANGED gateVars]_vars

\* What the code keeps: the query methods of the gate counter, and the
\* endpoints that only call them, change nothing
C18_QueryMethodsLeaveStateUnchanged ==
    [][call'.op \in QueryOps \ {"rest_get_gate_stats"} =>
          UNCHANGED gateVars]_vars

\* GET /gates/{video_id} has recorded a crossing
C18_QueryCountedCrossing ==
    /\ call.op = "rest_get_gate_stats"
    /\ new_crossings # <<>>

\* C19 as stated: a reset with a gate id that is not configured raises an
\* error to the caller and leaves the counter as it was, the keys of its
\* maps included.
C19_UnknownGateResetIsRejected ==
    [][(call'.op = "gate_reset"
        /\ call'.gate_id \notin Range(gates) \cup {None}) =>
          /\ call'.raised
          /\ UNCHANGED <<gates, gate_track_positions, crossings, entry_count,
                         exit_count, crossed_tracks>>]_vars

\* The dwell analyzer ignores a zone id that is not configured: its state
\* stays as it was, and the caller is told nothing
C19_UnknownZoneResetIsIgnored ==
    [][(call'.op = "dwell_reset"
        /\ call'.zone_id \notin Range(DwellZones) \cup {None}) =>
          /\ ~call'.raised
          /\ UNCHANGED dwellVars]_vars

\* A reset has given the maps of the counter a key that is no gate
C19_ResetAddedUnknownKey ==
    /\ call.op = "gate_reset"
    /\ ~call.raised
    /\ call.gate_id \notin Range(gates)
    /\ call.gate_id \in DOMAIN entry_count
    /\ call.gate_id \in DOMAIN exit_count
    /\ call.gate_id \in DOMAIN crossed_tracks

\* The value a setter was called with is out of range: a zone area or a
\* service rate that is not positive, a negative threshold, a threshold key
\* that does not exist
OutOfRange(c) ==
    \/ c.op = "set_zone_area" /\ c.value <= 0
    \/ c.op = "set_service_rate" /\ c.value <= 0
    \/ c.op = "set_threshold"
          /\ (c.value < 0 \/ c.key \notin DOMAIN DefaultThresholds)

\* C20 as stated: an update with a value that is out of range raises an
\* error to the caller and leaves every stored value as it was.
C20_OutOfRangeUpdateIsRejected ==
    [][OutOfRange(call') =>
          /\ call'.raised
          /\ UNCHANGED <<thresholds, service_rate, zone_area_sqm>>]_vars

\* What the code keeps: an unknown threshold key changes no threshold, and
\* the service rate never falls below 0.1
C20_UnknownKeyAndRateFloor ==
    [][/\ (call'.op = "set_threshold"
             /\ call'.key \notin DOMAIN DefaultThresholds)
          => UNCHANGED thresholds
       /\ service_rate' >= MinServiceRate]_vars

\* A negative threshold and a negative zone area are stored, and a service
\* rate of zero has replaced the rate by 0.1
C20_OutOfRangeValuesStored ==
    /\ \E k \in DOMAIN thresholds : thresholds[k] < 0
    /\ zone_area_sqm < 0
    /\ service_rate = MinServiceRate
    /\ ~call.raised

\* All that the manager holds for one video: its subscribers, its
\* processor, its task (the registered one and any earlier one that has not
\* ended), and its analyzers
SessionState(v) ==
    [subscribed |-> v \in DOMAIN active_connections,
     subscribers |-> Subscribers(v),
     processor |-> IF v \in DOMAIN processors
                   THEN <<processors[v], processor_objs[processors[v]]>>
                   ELSE <<>>,
     task |-> IF v \in DOMAIN tasks THEN <<tasks[v]>> ELSE <<>>,
     task_objs |-> [k \in {j \in DOMAIN task_objs : task_objs[j].video = v}
                       |-> task_objs[k]],
     analyzers |-> IF v \in DOMAIN analyzers
                   THEN <<analyzers[v], analyzer_objs[analyzers[v]]>>
                   ELSE <<>>]

\* C22: a step of the session of one video (a connect, a disconnect with
\* the stop it may cause, a start, any step of the processing task) leaves
\* what the manager holds for every other video as it was: subscribers,
\* processor, task and the four analyzers.
C22_SessionsShareNoState ==
    [][\A v \in AllVideos :
          LET video == IF "task" \in DOMAIN call'
                       THEN task_objs[call'.task].video
                       ELSE sockets'[call'.ws].video
          IN v # video => SessionState(v)' = SessionState(v)]_vars

\* The task of cam1 has updated an analyzer while cam2 has a session whose
\* analyzers have processed a snapshot
C22_Witness ==
    /\ call.op = "analyzer_update"
    /\ task_objs[call.task].video = "cam1"
    /\ "cam2" \in DOMAIN analyzers
    /\ "cam2" \in DOMAIN active_connections
    /\ analyzer_objs[analyzers["cam2"]]["anomaly"] > 0

\* The calls of callback i with alert a among the calls of the last
\* check_metrics
CallsOf(i, a) ==
    {n \in DOMAIN notified :
        notified[n].callback = i /\ notified[n].alert = a}

\* C23: when check_metrics returns, every alert it created has been passed
\* exactly once to every registered callback and no other alert to any (a
\* breach that created no alert notifies nobody); this holds with
\* callbacks that raise, the alerts they were given stay active and
\* unresolved, and check_metrics returns its list.
C23_NewAlertsNotifiedOnce ==
    call.op = "check_metrics" =>
        /\ \A a \in Range(new_alerts) :
              /\ \A i \in DOMAIN callbacks : Cardinality(CallsOf(i, a)) = 1
              /\ a \in active_alerts
              /\ ~alerts[a].resolved
        /\ \A n \in DOMAIN notified :
              /\ notified[n].alert \in Range(new_alerts)
              /\ notified[n].callback \in DOMAIN callbacks
        /\ Len(notified) = Len(new_alerts) * Len(callbacks)

\* One check_metrics created two alerts with two callbacks registered, the
\* first of which raises: four calls were made
C23_Witness ==
    /\ call.op = "check_metrics"
    /\ Len(new_alerts) = 2
    /\ callbacks = <<"raises", "returns">>
    /\ Len(notified) = 4
    /\ notified[1].raised

\* A breach that was suppressed by the unresolved alert of its type called
\* no callback
C23_SuppressedBreachNotifiesNobody ==
    /\ call.op = "check_metrics"
    /\ call.metrics.density = 40
    /\ new_alerts = <<>>
    /\ callbacks # <<>>
    /\ notified = <<>>

\* C25 as stated: the length of the crossing log never exceeds a fixed
\* maximum, however many crossings the session records without a reset.
\* The code names no maximum; whatever it is, one crossing more than it, by
\* distinct tracks, is enough, and the tracks of the model can exceed 2.
C25_CrossingLogIsBounded == Len(crossings) <= 2

\* What update does to the log: it appends the crossings of the tick and
\* removes nothing, so the log holds every crossing since the last reset
C25_UpdateOnlyAppends ==
    [][call'.op = "gate_update" =>
          crossings' = crossings \o new_crossings']_vars

\* The log holds one crossing for every pair of a track and a gate the
\* track crossed
C25_LogHoldsEveryCrossing ==
    /\ call.op = "gate_update"
    /\ Len(crossings) > 2
    /\ Len(crossings) =
          Cardinality({<<crossings[i].track_id, crossings[i].gate_id>> :
                          i \in DOMAIN crossings})

\* The dot product of a displacement with the entry direction of a gate
DotWithEntryDirection(prev_pos, curr_pos, gate_id) ==
    (curr_pos[1] - prev_pos[1]) * GateConfig[gate_id].entry_direction[1]
    + (curr_pos[2] - prev_pos[2]) * GateConfig[gate_id].entry_direction[2]

\* C26: the direction is "entry" when the dot product of the displacement
\* (previous position to current one) with the entry direction of the gate
\* is greater than 0 and "exit" otherwise, a dot product of 0 included:
\* for _get_crossing_direction called in any state of the counter, which it
\* leaves as it is, and for every crossing an update records.
C26_DirectionIsSignOfDotProduct ==
    [][/\ call'.op = "get_crossing_direction" =>
            /\ call'.result =
                  IF DotWithEntryDirection(call'.prev_pos, call'.curr_pos,
                                           call'.gate_id) > 0
                  THEN "entry" ELSE "exit"
            /\ UNCHANGED gateVars
       /\ call'.op = "gate_update" =>
            \A i \in DOMAIN new_crossings' :
                LET c == new_crossings'[i]
                    positions == gate_track_positions[c.track_id]
                    prev == positions[Len(positions)]
                IN c.direction =
                      IF DotWithEntryDirection(<<prev[1], prev[2]>>,
                                               c.position, c.gate_id) > 0
                      THEN "entry" ELSE "exit"]_vars

\* A movement along the gate (dot product 0) was classified, in a state in
\* which the counter has recorded an entry and an exit
C26_Witness ==
    /\ call.op = "get_crossing_direction"
    /\ DotWithEntryDirection(call.prev_pos, call.curr_pos, call.gate_id) = 0
    /\ call.prev_pos # call.curr_pos
    /\ call.result = "exit"
    /\ \E i \in DOMAIN crossings : crossings[i].direction = "entry"
    /\ \E i \in DOMAIN crossings : crossings[i].direction = "exit"

Congested(m) == m.congestionStatus \in {"congested", "severe"}

UnresolvedCongestion(objs, active, zone) ==
    {a \in active :
        objs[a].type = "congestion" /\ objs[a].zone = zone
        /\ ~objs[a].resolved}

\* C30: condition_start_times holds, for a zone, the time of the first call
\* of the run of congested calls that is under way: the first congested call
\* for the zone stores its time and creates no congestion alert, the
\* congested calls that follow leave it, and a call with another status
\* removes it and leaves no unresolved congestion alert of the zone.  A
\* congestion alert is created only by a call made more than
\* congestion_duration after that start.
C30_CongestionAlertOnlyAfterDuration ==
    [][call'.op = "check_metrics" =>
          LET zone == call'.zone
              created == {a \in Range(new_alerts') :
                             alerts'[a].type = "congestion"}
          IN /\ \A a \in created :
                   /\ Congested(call'.metrics)
                   /\ alerts'[a].zone = zone
                   /\ zone \in DOMAIN condition_start_times
                   /\ now' - condition_start_times[zone]
                         > thresholds.congestion_duration
             /\ Congested(call'.metrics) =>
                   IF zone \in DOMAIN condition_start_times
                   THEN condition_start_times' = condition_start_times
                   ELSE /\ condition_start_times' =
                              Put(condition_start_times, zone, now')
                        /\ created = {}
             /\ ~Congested(call'.metrics) =>
                   /\ zone \notin DOMAIN condition_start_times'
                   /\ UnresolvedCongestion(alerts', active_alerts', zone) = {}]_vars

\* A congestion alert was created by a call of a run that began more than
\* the duration before it
C30_Witness ==
    /\ call.op = "check_metrics"
    /\ \E a \in Range(new_alerts) :
          /\ alerts[a].type = "congestion"
          /\ now - condition_start_times[call.zone]
                > thresholds.congestion_duration

\* A call with another status has resolved the congestion alert of the zone
\* and discarded the start of the run
C30_RunInterrupted ==
    /\ call.op = "check_metrics"
    /\ ~Congested(call.metrics)
    /\ call.zone \notin DOMAIN condition_start_times
    /\ \E a \in active_alerts :
          /\ alerts[a].type = "congestion"
          /\ alerts[a].zone = call.zone
          /\ alerts[a].resolved

ShortestArc(a, b) ==
    IF Abs(a - b) <= 360 - Abs(a - b) THEN Abs(a - b) ELSE 360 - Abs(a - b)

\* C27: for angles a and b in [0, 360) the angle difference is
\* min(|a - b|, 360 - |a - b|) and lies in [0, 180]; the deviation stored in
\* every counter-flow event is that difference of the event's movement angle
\* and dominant-flow angle
C27_DeviationIsShortestArc ==
    /\ call.op = "angle_difference" =>
          /\ call.result = ShortestArc(call.angle1, call.angle2)
          /\ call.result \in 0..180
    /\ \A i \in DOMAIN counter_flow_events :
          LET e == counter_flow_events[i]
          IN /\ e.movement_angle \in 0..359
             /\ e.dominant_flow_angle \in 0..359
             /\ e.deviation_angle =
                   ShortestArc(e.movement_angle, e.dominant_flow_angle)
             /\ e.deviation_angle \in 0..180

\* Two angles more than 180 apart: the difference is taken the other way round
C27_Witness ==
    /\ call.op = "angle_difference"
    /\ Abs(call.angle1 - call.angle2) > 180
    /\ call.result = 360 - Abs(call.angle1 - call.angle2)

\* A counter-flow event holds the deviation of a track that turned round
C27_EventStored ==
    /\ call.op = "flow_update"
    /\ new_counter_flow # <<>>
    /\ new_counter_flow[1].deviation_angle = 180

LastRecord(history, track_id) ==
    history[track_id][Len(history[track_id])]

Fallen(record) == record.width = 16 /\ record.height = 8

Upright(record) == record.width = 24 /\ record.height = 20

FallEventsOf(events, track_id) ==
    {i \in DOMAIN events :
        events[i].event_type = "fall" /\ events[i].track_id = track_id}

\* C29 (as the claim states it): an update that has emitted a fall event for
\* a track is not followed by an update that emits another one while the
\* track's box keeps the fallen shape
C29_FallNotRepeatedWhileDown ==
    [][\A track_id \in DOMAIN track_history :
          (/\ call.op = "anomaly_update"
           /\ call'.op = "anomaly_update"
           /\ FallEventsOf(new_anomalies, track_id) # {}
           /\ Fallen(LastRecord(track_history, track_id))
           /\ track_id \in DOMAIN track_history'
           /\ Fallen(LastRecord(track_history', track_id))
           /\ LastRecord(track_history', track_id).timestamp = now')
          => FallEventsOf(new_anomalies', track_id) = {}]_vars

\* The tick of the drop: a track whose last ten boxes were upright is seen
\* with the fallen box, and the update emits one fall event for it, with a
\* confidence of points / 5 that is at least 0.6
C29_FallOnDrop ==
    [][\A track_id \in DOMAIN track_history :
          (/\ call'.op = "anomaly_update"
           /\ Len(track_history[track_id]) >= 10
           /\ \A i \in 1..10 :
                 Upright(track_history[track_id]
                             [Len(track_history[track_id]) + 1 - i])
           /\ track_id \in DOMAIN track_history'
           /\ Fallen(LastRecord(track_history', track_id))
           /\ LastRecord(track_history', track_id).timestamp = now')
          => /\ Cardinality(FallEventsOf(new_anomalies', track_id)) = 1
             /\ \A i \in FallEventsOf(new_anomalies', track_id) :
                   /\ new_anomalies'[i].confidence \in {Rat(k, 5) : k \in 3..5}
                   /\ ~RatLess(new_anomalies'[i].confidence, Rat(6, 10))]_vars

\* The fall of a track is in the log twice, from two updates in a row
C29_FallLoggedTwice ==
    /\ call.op = "anomaly_update"
    /\ \E i, j \in DOMAIN anomaly_events :
          /\ anomaly_events[i].event_type = "fall"
          /\ anomaly_events[j].event_type = "fall"
          /\ anomaly_events[i].track_id = "t1"
          /\ anomaly_events[j].track_id = "t1"
          /\ anomaly_events[j].timestamp = anomaly_events[i].timestamp + 1
    /\ \A k \in 1..2 :
          Fallen(track_history["t1"][Len(track_history["t1"]) + 1 - k])

StationaryEventsOf(events, track_id) ==
    {i \in DOMAIN events :
        /\ events[i].event_type = "stationary_person"
        /\ events[i].track_id = track_id}

\* The last k + 1 records of the history are consecutive ticks at one position
StoodFor(history, k) ==
    /\ Len(history) >= k + 1
    /\ \A i \in 1..k :
          LET a == history[Len(history) - i]
              b == history[Len(history) + 1 - i]
          IN /\ b.x = a.x /\ b.y = a.y
             /\ b.timestamp = a.timestamp + TickInterval

\* The crowd baseline of each of the last k updates was above three times
\* the stationary threshold
CrowdMovedFor(k) ==
    /\ Len(velocity_history) >= k
    /\ \A i \in 1..k :
          RatLess(Rat(3 * stationary_threshold, 1),
                  velocity_history[Len(velocity_history) + 1 - i])

\* C28 (as the claim states it): a track that has shown no displacement on 10
\* consecutive ticks, the last of them the tick just processed, while the
\* crowd baseline was well above the stationary threshold, has a
\* stationary_person event in the log
C28_StationaryFlaggedAfterTenTicks ==
    \A track_id \in DOMAIN track_history :
        (/\ call.op = "anomaly_update"
         /\ StoodFor(track_history[track_id], 10)
         /\ LastRecord(track_history, track_id).timestamp = now
         /\ CrowdMovedFor(10))
        => StationaryEventsOf(anomaly_events, track_id) # {}

\* The event is emitted by the update that finds 30 records of the track:
\* the log holds one stationary_person event of a track that stood for 30 ticks
C28_FlaggedAfterThirtyRecords ==
    /\ call.op = "anomaly_update"
    /\ "t1" \in DOMAIN track_history
    /\ StoodFor(track_history["t1"], 30)
    /\ Cardinality(StationaryEventsOf(anomaly_events, "t1")) = 1
    /\ StationaryEventsOf(new_anomalies, "t1") = {}

\* Two stationary_person events of one track are at least 30 seconds apart
C28_NoDuplicateWithin30Seconds ==
    \A i, j \in DOMAIN anomaly_events :
        (/\ i < j
         /\ anomaly_events[i].event_type = "stationary_person"
         /\ anomaly_events[j].event_type = "stationary_person"
         /\ anomaly_events[i].track_id = anomaly_events[j].track_id)
        => anomaly_events[j].timestamp - anomaly_events[i].timestamp
              >= StationaryQuietSeconds

ResetOps == {"gate_reset", "flow_reset", "dwell_reset", "anomaly_reset"}

CountersAtZero ==
    /\ \A g \in DOMAIN entry_count : entry_count[g] = 0
    /\ \A g \in DOMAIN exit_count : exit_count[g] = 0
    /\ \A g \in DOMAIN crossed_tracks : crossed_tracks[g] = {}
    /\ crossings = <<>>
    /\ \A z \in DOMAIN active_dwells : active_dwells[z] = <<>>
    /\ completed_dwells = <<>>
    /\ counter_flow_events = <<>> /\ flow_history = <<>>
    /\ anomaly_events = <<>> /\ event_counter = 0

\* The step is a reset that directly follows the same reset, of the same
\* scope, of the same analyzer
SameResetAgain ==
    /\ call.op \in ResetOps
    /\ call'.op = call.op
    /\ call.op = "gate_reset" => call'.gate_id = call.gate_id
    /\ call.op = "dwell_reset" => call'.zone_id = call.zone_id

\* C21: a reset raises no error; a reset that directly follows the same
\* reset of the same analyzer changes nothing in any analyzer, so two resets
\* in a row leave the state one reset leaves; and while the session has
\* processed no snapshot (the clock has not moved) a reset leaves every
\* counter at zero
C21_ResetIsIdempotent ==
    [][call'.op \in ResetOps =>
          /\ call'.raised = FALSE
          /\ SameResetAgain =>
                UNCHANGED <<gateVars, dwellVars, flowVars, anomalyVars>>
          /\ now' = 0 => CountersAtZero']_vars

\* A second reset in a row of an analyzer that had processed snapshots
C21_Witness ==
    /\ call.op \in {"flow_reset", "anomaly_reset"}
    /\ call.repeated
    /\ now > 0
    /\ CountersAtZero

\* A second reset in a row on a session that has processed no snapshot
C21_ResetTwiceOnEmptySession ==
    /\ call.op \in {"flow_reset", "anomaly_reset"}
    /\ call.repeated
    /\ now = 0
    /\ CountersAtZero


\* The last n entries of s, the oldest of them first
MostRecent(s, n) ==
    [i \in 1..Min(Len(s), n) |-> s[Len(s) - Min(Len(s), n) + i]]

\* A buffer after an update is the buffer before it with the entries of the
\* update at its end, cut from the front to the cap
KeepsMostRecent(old, added, new, cap) ==
    /\ Len(new) <= cap
    /\ new = MostRecent(old \o added, cap)

\* The trajectory of a track grows by the position of this tick when the
\* track is in the frame, and by nothing when it is not
TrajectoriesKeepMostRecent(old, new, ids, t, when(_), cap) ==
    \A id \in DOMAIN new :
        /\ KeepsMostRecent(GetList(old, id),
                           IF id \in ids
                           THEN <<new[id][Len(new[id])]>> ELSE <<>>,
                           new[id], cap)
        /\ id \in ids => when(new[id][Len(new[id])]) = t

\* The tracks of the frame that the flow analyzer saw move: a flow vector is
\* recorded for each of them
MovedTracks(old, new, ids) ==
    {id \in ids :
        /\ GetList(old, id) # <<>>
        /\ LET prev == old[id][Len(old[id])]
               cur == new[id][Len(new[id])]
           IN /\ cur[3] - prev[3] > 0
              /\ cur[3] - prev[3] < 2
              /\ <<cur[1], cur[2]>> # <<prev[1], prev[2]>>}

\* The dwell records closed at time t
ClosedAt(recs, t) ==
    {r \in DOMAIN recs : ~recs[r].is_active /\ recs[r].exit_time = t}

\* C24: after every update, each capped history buffer is within its size
\* and is the buffer before the update followed by the entries of the
\* update, with the oldest entries dropped beyond the size: the per-track
\* trajectories (30 in the gate counter, 20 in the flow analyzer, 100 in the
\* anomaly detector), the flow-vector buffer (100), the completed-dwell log
\* (1000), the anomaly log (500) and the alert history (1000).
C24_BuffersKeepMostRecent ==
    [][/\ call'.op = "get_advanced_analytics" =>
            LET ids == TrackIds(call'.objs)
                vectors == Cardinality(MovedTracks(flow_track_positions,
                                                   flow_track_positions', ids))
                closed == Cardinality(ClosedAt(dwell_records', now'))
            IN /\ TrajectoriesKeepMostRecent(gate_track_positions,
                                             gate_track_positions', ids, now',
                                             LAMBDA e : e[3], 30)
               /\ TrajectoriesKeepMostRecent(flow_track_positions,
                                             flow_track_positions', ids, now',
                                             LAMBDA e : e[3], 20)
               /\ TrajectoriesKeepMostRecent(track_history, track_history',
                                             ids, now',
                                             LAMBDA e : e.timestamp, 100)
               /\ KeepsMostRecent(flow_history,
                                  MostRecent(flow_history', vectors),
                                  flow_history', 100)
               /\ KeepsMostRecent(completed_dwells,
                                  MostRecent(completed_dwells', closed),
                                  completed_dwells', 1000)
               /\ \A i \in 1..closed :
                     completed_dwells'[Len(completed_dwells') - closed + i]
                         \in ClosedAt(dwell_records', now')
               /\ KeepsMostRecent(anomaly_events, new_anomalies',
                                  anomaly_events', 500)
       /\ call'.op = "check_metrics" =>
            KeepsMostRecent(alert_history, new_alerts', alert_history', 1000)
      ]_vars

\* A long session in which every buffer was full, after one more frame and
\* one more metrics report: every buffer is still full, holds an entry of
\* the run, and has lost its oldest entry.  Before the run the oldest alert
\* of the history was of the first report, the oldest completed dwell had
\* ended on the second tick, and the anomaly log, with one fall per tick,
\* reached back 499 ticks.
C24_Witness ==
    /\ call.op = "check_metrics"
    /\ Len(gate_track_positions["t1"]) = 30
    /\ gate_track_positions["t1"][30][3] > 0
    /\ Len(flow_track_positions["t1"]) = 20
    /\ flow_track_positions["t1"][20][3] > 0
    /\ Len(track_history["t1"]) = 100
    /\ track_history["t1"][100].timestamp > 0
    /\ Len(flow_history) = 100
    /\ \E i \in 2..20 :
          /\ flow_track_positions["t1"][i][3] > 0
          /\ flow_track_positions["t1"][i][1] #
             flow_track_positions["t1"][i - 1][1]
    /\ Len(completed_dwells) = 1000
    /\ dwell_records[completed_dwells[1]].exit_time
          > TimeOf(2, DwellWarmTicks)
    /\ dwell_records[completed_dwells[1000]].exit_time > 0
    /\ Len(anomaly_events) = 500
    /\ anomaly_events[1].timestamp > TimeOf(1, 500)
    /\ anomaly_events[500].timestamp > 0
    /\ Len(alert_history) = 1000
    /\ alerts[alert_history[1]].timestamp
          > (1 - AlertWarmReports) * ReportInterval
    /\ alerts[alert_history[1000]].timestamp > 0


(***************************************************************************)
(* Gates added and removed while the counter runs                          *)
(***************************************************************************)

\* BiDirectionalGateCounter.add_gate, for a gate of the default geometry:
\* the gate is (re)registered and its counts and crossed set are zeroed;
\* self.crossings is not touched
add_gate(gate_id) ==
    /\ gates' = IF gate_id \in Range(gates) THEN gates ELSE Append(gates, gate_id)
    /\ entry_count' = Put(entry_count, gate_id, 0)
    /\ exit_count' = Put(exit_count, gate_id, 0)
    /\ crossed_tracks' = Put(crossed_tracks, gate_id, {})
    /\ call' = [op |-> "add_gate", gate_id |-> gate_id]
    /\ UNCHANGED <<now, gate_track_positions, crossings, new_crossings, notGateVars>>

\* BiDirectionalGateCounter.remove_gate
remove_gate(gate_id) ==
    /\ IF gate_id \in Range(gates)
       THEN /\ gates' = SelectSeq(gates, LAMBDA g : g # gate_id)
            /\ entry_count' = Drop(entry_count, gate_id)
            /\ exit_count' = Drop(exit_count, gate_id)
            /\ crossed_tracks' = Drop(crossed_tracks, gate_id)
       ELSE UNCHANGED <<gates, entry_count, exit_count, crossed_tracks>>
    /\ call' = [op |-> "remove_gate", gate_id |-> gate_id]
    /\ UNCHANGED <<now, gate_track_positions, crossings, new_crossings, notGateVars>>

\* Both tracks move between the two sides of the main entrance
GateConfigSnapshots ==
    {Snapshot(p1, p2) : p1 \in GatePoints2 \cup {Absent},
                        p2 \in GatePoints2 \cup {Absent}}

NextGateConfig ==
    \/ \E objs \in GateConfigSnapshots : gate_update(objs)
    \/ \E g \in {None, "main_entrance"} : gate_reset(g)
    \/ \E g \in Range(DefaultGates) : add_gate(g)
    \/ \E g \in Range(DefaultGates) : remove_gate(g)

SpecGateConfig == Init /\ [][NextGateConfig]_vars

\* The log entries of a gate, all or of one direction
LoggedAt(gate_id) == SelectSeq(crossings, LAMBDA c : c.gate_id = gate_id)
LoggedAs(gate_id, direction) ==
    SelectSeq(crossings,
              LAMBDA c : c.gate_id = gate_id /\ c.direction = direction)

CountsAgreeWithLog(gate_id) ==
    /\ entry_count[gate_id] + exit_count[gate_id]
           = Cardinality(crossed_tracks[gate_id])
    /\ Cardinality(crossed_tracks[gate_id]) = Len(LoggedAt(gate_id))
    /\ Len(LoggedAs(gate_id, "entry")) = entry_count[gate_id]
    /\ Len(LoggedAs(gate_id, "exit")) = exit_count[gate_id]

C31_CountsAgreeWithoutGateChanges ==
    gates = DefaultGates => \A g \in Range(gates) : CountsAgreeWithLog(g)

\* A gate was added again after a crossing of it was logged
C31_ReaddedGateKeepsLog ==
    /\ call.op = "add_gate"
    /\ call.gate_id \in Range(gates)
    /\ entry_count[call.gate_id] + exit_count[call.gate_id] = 0
    /\ Len(LoggedAt(call.gate_id)) > 0


\* The last stored position of a track
LastPosition(track_id) ==
    LET h == gate_track_positions[track_id] IN <<h[Len(h)][1], h[Len(h)][2]>>

\* The step of a tracked object from its stored position crosses the gate
StepCrosses(obj, gate_id) ==
    /\ obj.id \in DOMAIN gate_track_positions
    /\ gate_track_positions[obj.id] # <<>>
    /\ LinesIntersect(LastPosition(obj.id), Normalize(obj.x, obj.y),
                      GateStart(gate_id), GateEnd(gate_id))

\* C35: reset(gate_id = g) for a configured gate g zeroes g's counts, empties
\* g's crossed set and removes exactly g's entries from the crossing log; the
\* counts, crossed sets and log entries of every other gate and all stored
\* trajectories stay as they were; and an update counts the crossing of a
\* gate by every track that is not in the gate's crossed set, so a track that
\* had crossed g before the reset is counted again on its next crossing
C35_ScopedResetFrame ==
    [][/\ (call'.op = "gate_reset" /\ call'.gate_id \in Range(gates)) =>
            /\ entry_count'[call'.gate_id] = 0
            /\ exit_count'[call'.gate_id] = 0
            /\ crossed_tracks'[call'.gate_id] = {}
            /\ crossings' = SelectSeq(crossings,
                                      LAMBDA c : c.gate_id # call'.gate_id)
            /\ \A g \in Range(gates) \ {call'.gate_id} :
                   /\ entry_count'[g] = entry_count[g]
                   /\ exit_count'[g] = exit_count[g]
                   /\ crossed_tracks'[g] = crossed_tracks[g]
            /\ UNCHANGED <<gates, gate_track_positions>>
       /\ call'.op = "gate_update" =>
            \A i \in DOMAIN call'.objs : \A g \in Range(gates) :
                (StepCrosses(call'.objs[i], g)
                 /\ call'.objs[i].id \notin crossed_tracks[g]) =>
                    /\ call'.objs[i].id \in crossed_tracks'[g]
                    /\ entry_count'[g] + exit_count'[g]
                           > entry_count[g] + exit_count[g]
                    /\ \E c \in Range(new_crossings') :
                           c.track_id = call'.objs[i].id /\ c.gate_id = g]_vars

\* t1 went up through the main entrance and came down through it again: its
\* trajectory holds both steps, which a full reset would have cleared.  The
\* log holds the crossing of this tick and the exit count is 0, so the gate
\* was reset between the two crossings and t1 is counted again
C35_Witness ==
    /\ call.op = "gate_update"
    /\ "t1" \in DOMAIN gate_track_positions
    /\ Len(gate_track_positions["t1"]) = 3
    /\ gate_track_positions["t1"][1][2] = 70
    /\ gate_track_positions["t1"][2][2] = 50
    /\ gate_track_positions["t1"][3][2] = 70
    /\ \E c \in Range(new_crossings) :
          c.track_id = "t1" /\ c.gate_id = "main_entrance"
    /\ entry_count["main_entrance"] = 1
    /\ exit_count["main_entrance"] = 0
    /\ crossed_tracks["main_entrance"] = {"t1"}


DensityTypes == {"high_density", "critical_density"}

\* An unresolved alert of the type and zone is in active_alerts
ActiveUnresolved(alert_type, zone) ==
    HasUnresolved(alerts, active_alerts, alert_type, zone)

\* C36: check_metrics resolves a density alert only of its zone and only
\* when the density is below the warning threshold; with a density at or
\* above the warning threshold every density alert stays resolved or
\* unresolved as it was, the critical_density alert under a density in
\* [warning, critical) and the high_density alert under a density >= critical
\* included
C36_DensityResolvedOnlyBelowWarning ==
    [][call'.op = "check_metrics" =>
          \A id \in DOMAIN alerts :
              (alerts[id].type \in DensityTypes
               /\ alerts'[id].resolved # alerts[id].resolved) =>
                  /\ call'.metrics.density < thresholds.density_warning
                  /\ call'.metrics.density < thresholds.density_critical
                  /\ alerts[id].zone = call'.zone]_vars

\* A call with a density >= critical has left the unresolved high_density
\* alert of its zone unresolved next to the zone's critical_density alert
C36_Witness ==
    /\ call.op = "check_metrics"
    /\ call.metrics.density >= thresholds.density_critical
    /\ ActiveUnresolved("high_density", call.zone)
    /\ ActiveUnresolved("critical_density", call.zone)

\* A call with a density in [warning, critical) has left the unresolved
\* critical_density alert of its zone unresolved
C36_CriticalStaysUnderWarningDensity ==
    /\ call.op = "check_metrics"
    /\ call.metrics.density >= thresholds.density_warning
    /\ call.metrics.density < thresholds.density_critical
    /\ ActiveUnresolved("high_density", call.zone)
    /\ ActiveUnresolved("critical_density", call.zone)


(***************************************************************************)
(* Signals that worsen: velocity, queue wait and congestion at the warning *)
(* and at the critical level                                               *)
(***************************************************************************)
WorseningMetricsInputs ==
    {NormalMetrics,
     [NormalMetrics EXCEPT !.velocity = 4],
     [NormalMetrics EXCEPT !.velocity = 2],
     [NormalMetrics EXCEPT !.waitTimeMinutes = 50],
     [NormalMetrics EXCEPT !.waitTimeMinutes = 70],
     [NormalMetrics EXCEPT !.congestionStatus = "congested"],
     [NormalMetrics EXCEPT !.congestionStatus = "severe"]}

NextWorsening ==
    \/ \E m \in WorseningMetricsInputs : check_metrics(m, "general")
    \/ \E v \in ThresholdValueInputs : set_threshold("congestion_duration", v)
    \/ \E id \in 1..MaxAlerts : acknowledge_alert(id)
    \/ \E id \in 1..MaxAlerts : resolve_alert(id)
    \/ clear_resolved

SpecWorsening == Init /\ [][NextWorsening]_vars

LeveledTypes == {"low_velocity", "congestion", "long_queue"}

\* The level check_metrics asks for, per type, None where the signal of the
\* type is not breached
AskedLevel(m, alert_type) ==
    CASE alert_type = "low_velocity" ->
             IF m.velocity <= thresholds.velocity_critical THEN "critical"
             ELSE IF m.velocity <= thresholds.velocity_warning THEN "warning"
             ELSE None
      [] alert_type = "long_queue" ->
             IF m.waitTimeMinutes >= thresholds.queue_very_long THEN "critical"
             ELSE IF m.waitTimeMinutes >= thresholds.queue_long THEN "warning"
             ELSE None
      [] alert_type = "congestion" ->
             IF m.congestionStatus = "severe" THEN "critical"
             ELSE IF m.congestionStatus = "congested" THEN "warning"
             ELSE None

\* C37: in every step, every alert keeps its id, type, level, zone and
\* timestamp, stays resolved once resolved and acknowledged once
\* acknowledged; and a check_metrics call made while an unresolved alert of
\* type low_velocity, congestion or long_queue is active for its zone
\* creates no alert of that type and zone, whatever the level asked for
C37_AlertFieldsMonotone ==
    [][/\ \A id \in DOMAIN alerts :
            /\ id \in DOMAIN alerts'
            /\ alerts'[id].id = alerts[id].id
            /\ alerts'[id].type = alerts[id].type
            /\ alerts'[id].level = alerts[id].level
            /\ alerts'[id].zone = alerts[id].zone
            /\ alerts'[id].timestamp = alerts[id].timestamp
            /\ alerts[id].resolved => alerts'[id].resolved
            /\ alerts[id].acknowledged => alerts'[id].acknowledged
       /\ call'.op = "check_metrics" =>
            \A ty \in LeveledTypes :
                ActiveUnresolved(ty, call'.zone) =>
                    \A id \in (DOMAIN alerts') \ (DOMAIN alerts) :
                        ~(alerts'[id].type = ty /\ alerts'[id].zone = call'.zone)]_vars

\* The unresolved alert of a type and the zone of the last call is a WARNING
\* and the call asked for CRITICAL
StaysWarning(alert_type) ==
    /\ call.op = "check_metrics"
    /\ AskedLevel(call.metrics, alert_type) = "critical"
    /\ \E id \in active_alerts :
          /\ alerts[id].type = alert_type
          /\ alerts[id].zone = call.zone
          /\ ~alerts[id].resolved
          /\ alerts[id].level = "warning"
          /\ alerts[id].timestamp < now
    /\ \A id \in DOMAIN alerts :
          alerts[id].type = alert_type => alerts[id].level = "warning"

C37_Witness == StaysWarning("low_velocity")

C37_QueueStaysWarning == StaysWarning("long_queue")

C37_CongestionStaysWarning ==
    /\ StaysWarning("congestion")
    /\ now - condition_start_times[call.zone] > thresholds.congestion_duration


(***************************************************************************)
(* Counter-flow: two tracks on the x axis, under the default angle         *)
(* threshold and under a threshold of 180 degrees, the largest deviation   *)
(* two angles can have                                                     *)
(***************************************************************************)
AngleThresholdInputs == {DefaultAngleThreshold, 180}

InitCounterFlow ==
    /\ now = 0
    /\ call = [op |-> "init"]
    /\ InitAlert
    /\ InitGate
    /\ InitDwell
    /\ InitSession
    /\ InitConfig
    /\ \E a \in AngleThresholdInputs :
          InitFlowAs([NewFlowAnalyzer EXCEPT !.threshold = a])
    /\ InitAnomaly

NextCounterFlow ==
    \/ \E s \in FlowSnapshots : flow_update(s)
    \/ flow_reset

SpecCounterFlow == InitCounterFlow /\ [][NextCounterFlow]_vars

\* The step of a tracked object at time t from its last stored position, if
\* it has one
HasStep(obj) ==
    /\ obj.id \in DOMAIN flow_track_positions
    /\ flow_track_positions[obj.id] # <<>>

StepOf(obj, t) ==
    LET h == flow_track_positions[obj.id]
        p == FlowNormalize(obj.x, obj.y)
    IN [dx |-> p[1] - h[Len(h)][1], dy |-> p[2] - h[Len(h)][2],
        dt |-> t - h[Len(h)][3]]

\* The step is a movement: longer than 0.005 within less than 2 s
IsMovement(step) ==
    /\ step.dt > 0 /\ step.dt < 2
    /\ step.dx * step.dx + step.dy * step.dy > 5 * 5

\* The step opposes the dominant flow the analyzer held before the update
OpposesDominant(obj, t) ==
    /\ dominant_flow # NoFlow
    /\ HasStep(obj)
    /\ IsMovement(StepOf(obj, t))
    /\ LET diff == Abs(CalculateAngle(StepOf(obj, t).dx, StepOf(obj, t).dy)
                       - dominant_flow[1].angle)
       IN Min(diff, 360 - diff) > angle_threshold

\* C38: an update records a counter-flow event for a track exactly when the
\* analyzer held a dominant flow before the update, the track moved more
\* than the minimum magnitude in an elapsed time in (0, 2 s), and the angle
\* of the movement deviates from that earlier dominant flow by strictly more
\* than the angle threshold; the event carries the angle of that earlier
\* dominant flow; the first update after construction or reset records none
C38_CounterFlowAgainstPreviousDominant ==
    [][call'.op = "flow_update" =>
          /\ {e.track_id : e \in Range(new_counter_flow')}
                 = {call'.objs[i].id : i \in
                        {j \in DOMAIN call'.objs :
                             OpposesDominant(call'.objs[j], now')}}
          /\ Len(new_counter_flow') <= Len(call'.objs)
          /\ \A e \in Range(new_counter_flow') :
                 /\ e.dominant_flow_angle = dominant_flow[1].angle
                 /\ e.deviation_angle > angle_threshold
                 /\ e.timestamp = now'
          /\ counter_flow_events' = counter_flow_events \o new_counter_flow'
          /\ call.op \in {"init", "flow_reset"} => new_counter_flow' = <<>>]_vars

\* An update recorded an event against a dominant flow that is not the one
\* the analyzer holds after the update
C38_Witness ==
    /\ call.op = "flow_update"
    /\ new_counter_flow # <<>>
    /\ dominant_flow # NoFlow
    /\ new_counter_flow[1].dominant_flow_angle # dominant_flow[1].angle

\* Under a threshold of 180 degrees one track went forth and back on two
\* ticks: its second movement deviates from the dominant flow by exactly the
\* threshold, and no event was recorded
C38_NoEventAtThreshold ==
    /\ angle_threshold = 180
    /\ DOMAIN flow_track_positions = {"t1"}
    /\ Len(flow_history) = 2
    /\ flow_history[1].angle = 0
    /\ flow_history[2].angle = 180
    /\ counter_flow_events = <<>>

\* A track came back after a tick away (2 s after its last position) against
\* the dominant flow: no vector and no event
C38_NoEventAfterTwoSeconds ==
    /\ call.op = "flow_update"
    /\ angle_threshold = DefaultAngleThreshold
    /\ "t1" \in DOMAIN flow_track_positions
    /\ Len(flow_track_positions["t1"]) = 2
    /\ flow_track_positions["t1"][2][3] - flow_track_positions["t1"][1][3] = 2
    /\ flow_track_positions["t1"][2][3] = now
    /\ flow_track_positions["t1"][2][1] < flow_track_positions["t1"][1][1]
    /\ Len(flow_history) = 1
    /\ flow_history[1].angle = 0
    /\ counter_flow_events = <<>>


(***************************************************************************)
(* The queries of the DwellTimeAnalyzer.  Each reads time.time() once; the *)
(* clock has advanced since the call before.                               *)
(***************************************************************************)
\* _init_default_zones: expected_dwell_seconds of the three zones
ExpectedDwellSeconds(zone_id) ==
    CASE zone_id = "darshan_zone" -> 30
      [] zone_id = "queue_area"   -> 300
      [] zone_id = "entry_zone"   -> 15

\* round(n / d, 0) of a quotient of naturals, ties to the even neighbour
RoundDiv(n, d) ==
    LET q == n \div d
        r == n % d
    IN IF 2 * r > d \/ (2 * r = d /\ q % 2 = 1) THEN q + 1 ELSE q

\* get_anomalous_dwells, lines 293-304: the entries of one zone, in the
\* order of its active dict.  dwell > expected * 1.5 is compared after
\* doubling; excess_ratio is in hundredths.
RECURSIVE AnomaliesOfZone(_, _, _, _)
AnomaliesOfZone(items, zone_id, i, current_time) ==
    IF i > Len(items) THEN <<>>
    ELSE LET dwell == current_time - dwell_records[items[i].rec].entry_time
             expected == ExpectedDwellSeconds(zone_id)
         IN (IF 2 * dwell > 3 * expected
             THEN <<[track_id |-> dwell_records[items[i].rec].track_id,
                     zone_id |-> zone_id,
                     dwell_seconds |-> dwell,
                     expected_seconds |-> expected,
                     excess_ratio |-> RoundDiv(100 * dwell, expected),
                     severity |-> IF dwell < 2 * expected
                                  THEN "moderate" ELSE "high"]>>
             ELSE <<>>)
            \o AnomaliesOfZone(items, zone_id, i + 1, current_time)

RECURSIVE AnomaliesOfZones(_, _)
AnomaliesOfZones(k, current_time) ==
    IF k > Len(DwellZones) THEN <<>>
    ELSE AnomaliesOfZone(active_dwells[DwellZones[k]], DwellZones[k], 1,
                         current_time)
         \o AnomaliesOfZones(k + 1, current_time)

\* sorted(anomalies, key = excess_ratio, reverse = True): a stable sort
RECURSIVE SortedByExcess(_)
SortedByExcess(s) ==
    IF s = <<>> THEN <<>>
    ELSE LET top == CHOOSE i \in DOMAIN s :
                        /\ \A j \in DOMAIN s :
                               s[j].excess_ratio <= s[i].excess_ratio
                        /\ \A j \in 1..(i - 1) :
                               s[j].excess_ratio < s[i].excess_ratio
         IN <<s[top]>> \o SortedByExcess(SubSeq(s, 1, top - 1)
                                         \o SubSeq(s, top + 1, Len(s)))

GetAnomalousDwells(current_time) ==
    SortedByExcess(AnomaliesOfZones(1, current_time))

\* get_summary, lines 208-219: the anomalous entries of one zone
RECURSIVE SummaryAnomalies(_, _, _, _)
SummaryAnomalies(items, zone_id, i, current_time) ==
    IF i > Len(items) THEN <<>>
    ELSE LET dwell == current_time - dwell_records[items[i].rec].entry_time
             expected == ExpectedDwellSeconds(zone_id)
         IN (IF dwell > expected * 2
             THEN <<[track_id |-> dwell_records[items[i].rec].track_id,
                     dwell_seconds |-> dwell,
                     expected_seconds |-> expected]>>
             ELSE <<>>)
            \o SummaryAnomalies(items, zone_id, i + 1, current_time)

\* sum, min and max of a non-empty list of numbers
RECURSIVE SumOf(_)
SumOf(s) == IF s = <<>> THEN 0 ELSE s[1] + SumOf(Tail(s))
MinOf(s) == CHOOSE x \in Range(s) : \A y \in Range(s) : x <= y
MaxOf(s) == CHOOSE x \in Range(s) : \A y \in Range(s) : y <= x

\* get_summary, lines 200-240: the statistics of one zone; dwell times in
\* tenths of a second (round(x, 1))
ZoneSummary(zone_id, current_time) ==
    LET items == active_dwells[zone_id]
        completed_zone ==
            SelectSeq(completed_dwells,
                      LAMBDA r : dwell_records[r].zone_id = zone_id)
        active_dwell_times ==
            [i \in DOMAIN items |->
                current_time - dwell_records[items[i].rec].entry_time]
        recent_completed == LastN(completed_zone, 50)
        times == IF completed_zone # <<>>
                 THEN [i \in DOMAIN recent_completed |->
                          dwell_records[recent_completed[i]].dwell_seconds]
                 ELSE active_dwell_times
        anomalous_dwells == SummaryAnomalies(items, zone_id, 1, current_time)
    IN [occupancy |-> Len(items),
        average_dwell_seconds |->
            IF times = <<>> THEN 0 ELSE RoundDiv(10 * SumOf(times), Len(times)),
        min_dwell_seconds |-> IF times = <<>> THEN 0 ELSE 10 * MinOf(times),
        max_dwell_seconds |-> IF times = <<>> THEN 0 ELSE 10 * MaxOf(times),
        expected_dwell_seconds |-> ExpectedDwellSeconds(zone_id),
        anomalous_count |-> Len(anomalous_dwells),
        anomalous_dwells |-> SubSeq(anomalous_dwells, 1,
                                    Min(5, Len(anomalous_dwells))),
        total_completed |-> Len(completed_zone)]

GetSummary(current_time) ==
    [zones |-> [z \in Range(DwellZones) |-> ZoneSummary(z, current_time)],
     total_active_tracks |->
         SumOf([k \in DOMAIN DwellZones |-> Len(active_dwells[DwellZones[k]])]),
     total_completed_dwells |-> Len(completed_dwells),
     timestamp |-> current_time]

\* get_zone_occupancy_history, lines 265-275: the count at sample time t.  A
\* record has exit_time None exactly while it is_active.
OccupancyAt(zone_id, t) ==
    Cardinality({i \in DOMAIN completed_dwells :
                    LET record == dwell_records[completed_dwells[i]]
                    IN /\ record.zone_id = zone_id
                       /\ record.entry_time <= t
                       /\ (record.is_active \/ record.exit_time >= t)})
    + Cardinality({i \in DOMAIN active_dwells[zone_id] :
                      dwell_records[active_dwells[zone_id][i].rec].entry_time <= t})

\* The while loop of lines 263-282, from sample time t
RECURSIVE OccupancySamples(_, _, _, _)
OccupancySamples(zone_id, t, cutoff_time, current_time) ==
    IF t > current_time THEN <<>>
    ELSE <<[timestamp |-> t, relative_seconds |-> t - cutoff_time,
            occupancy |-> OccupancyAt(zone_id, t)]>>
         \o OccupancySamples(zone_id, t + 10, cutoff_time, current_time)

GetZoneOccupancyHistory(zone_id, window_seconds, current_time) ==
    IF zone_id \notin Range(DwellZones) THEN <<>>
    ELSE OccupancySamples(zone_id, current_time - window_seconds,
                          current_time - window_seconds, current_time)

\* The seconds between a query and the call before it
QueryDelays == {15, 25}

get_anomalous_dwells(dt) ==
    /\ now + dt <= MaxTime
    /\ now' = now + dt
    /\ call' = [op |-> "get_anomalous_dwells",
                result |-> GetAnomalousDwells(now')]
    /\ UNCHANGED <<dwellVars, notDwellVars>>

get_summary(dt) ==
    /\ now + dt <= MaxTime
    /\ now' = now + dt
    /\ call' = [op |-> "get_summary", result |-> GetSummary(now')]
    /\ UNCHANGED <<dwellVars, notDwellVars>>

get_zone_occupancy_history(zone_id, window_seconds, dt) ==
    /\ now + dt <= MaxTime
    /\ now' = now + dt
    /\ call' = [op |-> "get_zone_occupancy_history", zone_id |-> zone_id,
                window_seconds |-> window_seconds,
                result |-> GetZoneOccupancyHistory(zone_id, window_seconds,
                                                   now')]
    /\ UNCHANGED <<dwellVars, notDwellVars>>

\* Two tracks: T001 in the darshan zone, in the queue area and entry zone,
\* or away; T002 in the darshan zone or away
QuerySnapshots ==
    {s1 \o s2 :
        s1 \in {<<>>, <<TrackedObject("T001", <<50, 30>>)>>,
                <<TrackedObject("T001", <<20, 85>>)>>},
        s2 \in {<<>>, <<TrackedObject("T002", <<50, 30>>)>>}}

NextDwellAnomalies ==
    \/ \E objs \in QuerySnapshots : dwell_update(objs)
    \/ \E dt \in QueryDelays : get_anomalous_dwells(dt)
    \/ \E dt \in QueryDelays : get_summary(dt)

SpecDwellAnomalies == Init /\ [][NextDwellAnomalies]_vars


\* The dwell at time t of item i of the active dict of a zone
DwellOf(zone_id, i, t) ==
    t - dwell_records[active_dwells[zone_id][i].rec].entry_time

\* The tracks of a zone whose dwell at time t exceeds 1.5 times, and 2
\* times, the expected dwell of the zone
Over150(zone_id, t) ==
    {active_dwells[zone_id][i].track_id :
        i \in {j \in DOMAIN active_dwells[zone_id] :
                  2 * DwellOf(zone_id, j, t) > 3 * ExpectedDwellSeconds(zone_id)}}

Over200(zone_id, t) ==
    {active_dwells[zone_id][i].track_id :
        i \in {j \in DOMAIN active_dwells[zone_id] :
                  DwellOf(zone_id, j, t) > 2 * ExpectedDwellSeconds(zone_id)}}

AtLeast200(zone_id, t) ==
    {active_dwells[zone_id][i].track_id :
        i \in {j \in DOMAIN active_dwells[zone_id] :
                  DwellOf(zone_id, j, t) >= 2 * ExpectedDwellSeconds(zone_id)}}

\* The tracks a result of get_anomalous_dwells lists for a zone, all or of
\* one severity
ListedIn(result, zone_id) ==
    {e.track_id : e \in {x \in Range(result) : x.zone_id = zone_id}}

ListedAs(result, zone_id, severity) ==
    {e.track_id : e \in {x \in Range(result) :
                            x.zone_id = zone_id /\ x.severity = severity}}

SummaryListed(result, zone_id) ==
    {e.track_id : e \in Range(result.zones[zone_id].anomalous_dwells)}

\* C39 as stated: get_anomalous_dwells lists exactly the active records whose
\* dwell exceeds 1.5 times the expected dwell of their zone, with severity
\* 'high' exactly for those whose dwell exceeds 2 times the expected dwell
\* and 'moderate' for the others; and the anomalous count and subset of the
\* summary of a zone are of those same records
C39_OneClassification ==
    [][/\ call'.op = "get_anomalous_dwells" =>
            \A z \in Range(DwellZones) :
                /\ ListedIn(call'.result, z) = Over150(z, now')
                /\ ListedAs(call'.result, z, "high") = Over200(z, now')
                /\ ListedAs(call'.result, z, "moderate")
                       = Over150(z, now') \ Over200(z, now')
       /\ call'.op = "get_summary" =>
            \A z \in Range(DwellZones) :
                /\ call'.result.zones[z].anomalous_count
                       = Cardinality(Over150(z, now'))
                /\ SummaryListed(call'.result, z) \subseteq Over150(z, now')
                /\ Cardinality(Over150(z, now')) <= 5 =>
                       SummaryListed(call'.result, z) = Over150(z, now')]_vars

\* What the two queries do: get_anomalous_dwells lists the records over 1.5
\* times the expected dwell and calls 'high' those at or over 2 times it;
\* the summary counts the records over 2 times the expected dwell only
C39_TwoClassifications ==
    [][/\ call'.op = "get_anomalous_dwells" =>
            \A z \in Range(DwellZones) :
                /\ ListedIn(call'.result, z) = Over150(z, now')
                /\ ListedAs(call'.result, z, "high") = AtLeast200(z, now')
                /\ ListedAs(call'.result, z, "moderate")
                       = Over150(z, now') \ AtLeast200(z, now')
       /\ call'.op = "get_summary" =>
            \A z \in Range(DwellZones) :
                /\ call'.result.zones[z].anomalous_count
                       = Cardinality(Over200(z, now'))
                /\ SummaryListed(call'.result, z) = Over200(z, now')]_vars

\* The summary of the darshan zone counts no anomalous dwell while a track
\* has been in the zone for 50 s, between 1.5 and 2 times the 30 s expected
C39_SummaryMissesModerate ==
    /\ call.op = "get_summary"
    /\ call.result.zones["darshan_zone"].anomalous_count = 0
    /\ \E i \in DOMAIN active_dwells["darshan_zone"] :
          DwellOf("darshan_zone", i, now) = 50

\* get_anomalous_dwells calls 'high' a dwell of exactly 2 times the expected
C39_HighAtTwice ==
    /\ call.op = "get_anomalous_dwells"
    /\ \E e \in Range(call.result) :
          /\ e.dwell_seconds = 2 * e.expected_seconds
          /\ e.severity = "high"


\* The occupancy history of a zone, asked for over the default window and
\* over a short one, while tracks enter and leave
WindowInputs == {300, 30}
HistoryZoneInputs == {"darshan_zone", "no_such_zone"}

NextDwellHistory ==
    \/ \E objs \in QuerySnapshots : dwell_update(objs)
    \/ \E z \in HistoryZoneInputs, w \in WindowInputs, dt \in QueryDelays :
          get_zone_occupancy_history(z, w, dt)

SpecDwellHistory == Init /\ [][NextDwellHistory]_vars

\* The records of a zone whose interval contains t, an active record having
\* no end: the interval of a closed record once without, once with, its end
InZoneDuring(zone_id, t) ==
    {r \in DOMAIN dwell_records :
        /\ dwell_records[r].zone_id = zone_id
        /\ dwell_records[r].entry_time <= t
        /\ (dwell_records[r].is_active \/ dwell_records[r].exit_time > t)}

InZoneUntil(zone_id, t) ==
    {r \in DOMAIN dwell_records :
        /\ dwell_records[r].zone_id = zone_id
        /\ dwell_records[r].entry_time <= t
        /\ (dwell_records[r].is_active \/ dwell_records[r].exit_time >= t)}

\* C40 as stated: every sample of get_zone_occupancy_history for a
\* configured zone reports the number of the zone's records whose half-open
\* interval [entry_time, exit_time) contains the sample time; a record closed
\* exactly at the sample time is not counted
C40_OccupancyOfHalfOpenIntervals ==
    [][(call'.op = "get_zone_occupancy_history"
        /\ call'.zone_id \in Range(DwellZones)) =>
          \A i \in DOMAIN call'.result :
              call'.result[i].occupancy
                  = Cardinality(InZoneDuring(call'.zone_id,
                                             call'.result[i].timestamp))]_vars

\* What the query does: a closed record is counted from its entry_time to
\* its exit_time, both included; the samples are 10 s apart from the start
\* of the window to the time of the call
C40_OccupancyOfClosedIntervals ==
    [][(call'.op = "get_zone_occupancy_history"
        /\ call'.zone_id \in Range(DwellZones)) =>
          /\ Len(call'.result) = call'.window_seconds \div 10 + 1
          /\ \A i \in DOMAIN call'.result :
                /\ call'.result[i].timestamp
                       = now' - call'.window_seconds + 10 * (i - 1)
                /\ call'.result[i].occupancy
                       = Cardinality(InZoneUntil(call'.zone_id,
                                                 call'.result[i].timestamp))]_vars

\* A sample reports a record that was closed at the time of the sample
C40_CountedAtExit ==
    /\ call.op = "get_zone_occupancy_history"
    /\ call.zone_id \in Range(DwellZones)
    /\ \E i \in DOMAIN call.result :
          /\ call.result[i].occupancy = 1
          /\ InZoneDuring(call.zone_id, call.result[i].timestamp) = {}
          /\ \E r \in DOMAIN dwell_records :
                /\ dwell_records[r].zone_id = call.zone_id
                /\ ~dwell_records[r].is_active
                /\ dwell_records[r].exit_time = call.result[i].timestamp


(***************************************************************************)
(* Claims about the sessions under concurrent attach and detach            *)
(***************************************************************************)
\* The subscriber set of the task's video is not of the size it had when the
\* broadcast of the result of a tick began its iteration, and is not empty
SetChangedUnderBroadcast(k) ==
    /\ task_objs[k].pc = "next"
    /\ task_objs[k].message = "result"
    /\ Subscribers(task_objs[k].video) # {}
    /\ Cardinality(Subscribers(task_objs[k].video)) # task_objs[k].iter_size

\* C32 as stated: when a subscriber attached to or detached from a session
\* while a broadcast of the session was suspended in a delivery, and
\* subscribers remain, the broadcast goes on (to its next delivery or to its
\* clean-up): no error is raised into the processing loop, whose task
\* neither enters its exception handler nor ends
C32_BroadcastSurvivesSetChange ==
    [][\A k \in DOMAIN task_objs :
          (call'.op = "broadcast_next" /\ call'.task = k
           /\ SetChangedUnderBroadcast(k)) =>
              /\ task_objs'[k].pc \in {"sending", "cleanup"}
              /\ ~task_objs'[k].in_handler]_vars

\* The for statement of a broadcast of the result raised while subscribers
\* remain: the task is in the exception handler of the loop, about to send
\* the error and to close the source
C32_BroadcastRaised ==
    /\ call.op = "broadcast_next"
    /\ task_objs[call.task].in_handler
    /\ task_objs[call.task].pc = "broadcast"
    /\ task_objs[call.task].message = "error"
    /\ task_objs[call.task].after = "finally"
    /\ ~task_objs[call.task].cancel_requested
    /\ Subscribers(task_objs[call.task].video) # {}

\* The loop of a video has ended, uncancelled, after a tick in which every
\* analyzer was updated and none raised, and two subscribers are still
\* attached to the video, their clients present
C32_SessionEndedWithSubscribers ==
    /\ call.op = "loop_finally"
    /\ ~task_objs[call.task].cancel_requested
    /\ Cardinality(Subscribers(task_objs[call.task].video)) = 2
    /\ \A ws \in Subscribers(task_objs[call.task].video) : ~sockets[ws].gone
    /\ task_objs[call.task].video \in DOMAIN analyzers
    /\ analyzer_objs[analyzers[task_objs[call.task].video]].raised = NoFault
    /\ analyzer_objs[analyzers[task_objs[call.task].video]].anomaly > 0


\* The tasks of a video that have not ended
LiveTasks(video_id) ==
    {k \in DOMAIN task_objs :
        task_objs[k].video = video_id /\ task_objs[k].pc # "done"}

\* The analyzers that have processed more snapshots in the step
Advanced ==
    {a \in DOMAIN analyzer_objs :
        \E x \in Range(AnalyzerOrder) : analyzer_objs'[a][x] > analyzer_objs[a][x]}

\* C33: in every reachable state at most one processing task per video has
\* not ended, and it is the one registered for the video; analyzers are
\* advanced only by an update step of that task, and the analyzers it
\* advances are the ones registered for the video, which start_processing
\* created together with the task: the loop of an earlier session never
\* updates the analyzers of a later one
C33_OneLoopAdvancesItsAnalyzers ==
    [][/\ \A v \in Videos :
            /\ Cardinality(LiveTasks(v)') <= 1
            /\ LiveTasks(v)' \subseteq {tasks'[v]}
       /\ Advanced # {} =>
            /\ call'.op = "analyzer_update"
            /\ tasks[task_objs[call'.task].video] = call'.task
            /\ task_objs[call'.task].video \in DOMAIN analyzers
            /\ Advanced = {analyzers[task_objs[call'.task].video]}
            /\ analyzers[task_objs[call'.task].video] = call'.task]_vars

\* The loop of the second session of a video has updated an analyzer, the
\* task of the first session having ended with its analyzers collected
C33_Witness ==
    /\ call.op = "analyzer_update"
    /\ ~call.raises
    /\ call.task = 2
    /\ task_objs[1].pc = "done"
    /\ task_objs[1].video = task_objs[2].video
    /\ analyzers[task_objs[2].video] = 2
    /\ analyzer_objs[2].gate > 0
    /\ analyzer_objs[1] = NewAnalyzers


\* manager.disconnect of the last subscriber has stopped the session of task
\* k: the cancellation of the task is requested and the task has not ended
StopRequested(k) ==
    /\ k \in DOMAIN task_objs
    /\ task_objs[k].cancel_requested
    /\ task_objs[k].pc # "done"

\* The task has ended and its source is released
Released(k) ==
    /\ k \in DOMAIN task_objs
    /\ task_objs[k].pc = "done"
    /\ processor_objs[task_objs[k].processor].cap = None

\* The task holds the event loop inside its while statement
Iterating(k) ==
    /\ running = k
    /\ task_objs[k].pc \in {"top", "read"}

\* After the last subscriber of a session has disconnected, the task of the
\* session ends and its source is released
C34_StopsAfterLastDisconnect ==
    \A k \in TaskIds : StopRequested(k) ~> Released(k)

\* C34 as stated: after the last subscriber of a session has disconnected,
\* its loop stops and releases the source, under a fair scheduling of the
\* event loop; and, so that the stop is observed also while the reads of the
\* source return no frame, every iteration of the loop reaches a suspension
\* point (or the end of the loop): a task never holds the event loop for ever
C34_StopObservedInEveryIteration ==
    /\ \A k \in TaskIds : StopRequested(k) ~> Released(k)
    /\ \A k \in TaskIds : Iterating(k) ~> running # k

\* The last read of the task returned no frame and the task is back at the
\* while statement without having given up the event loop; the client of
\* its one subscriber is gone and the endpoint has not run disconnect
C34_SpinsWhileClientGone ==
    /\ call.op = "loop_read"
    /\ ~call.ret
    /\ running = call.task
    /\ task_objs[call.task].pc = "top"
    /\ ~task_objs[call.task].cancel_requested
    /\ \E ws \in Sockets :
          /\ Subscribers(task_objs[call.task].video) = {ws}
          /\ sockets[ws].gone
          /\ sockets[ws].state = "open"

====
